---- MODULE Spec2Model ----
(***************************************************************************)
(* Renovation cost estimator backend (Express + Mongoose).                 *)
(*                                                                         *)
(* The model covers the current revision of the controller                 *)
(* (src/unnamed/part_000, lines 1-466) and of the model                    *)
(* (src/models/project.js, lines 1-457): the Unit Aggregator, the Cost     *)
(* Totals Calculator, the Payment Aggregator, the Category/WorkItem        *)
(* Sanitizer, the Taxonomy Validator, the pre-validate hook, Mongoose's    *)
(* casting and validation of the declared schemas, and the create/update   *)
(* request handler on top of a small project collection.                   *)
(*                                                                         *)
(* Data representation                                                     *)
(*  - A JavaScript string is a TLA+ string; the absent property            *)
(*    (undefined) is the value Undef.  trim(), toLowerCase() and           *)
(*    startsWith() are tables over the strings of the model.               *)
(*  - A JavaScript number is a decimal fixed-point integer: per-unit cost  *)
(*    rates and money inputs are in cents, surface dimensions in halves    *)
(*    of a unit, settings rates in hundredths.  Every intermediate of the  *)
(*    calculator is kept exactly at the scale its factors give it, and     *)
(*    toFixed(2) rounds it half away from zero to cents.  NaN (the result  *)
(*    of Number(undefined)) is the value NaNv.  Binary floating-point      *)
(*    representation error is not modelled.                                *)
(*  - A boolean property that may be absent is "true", "false" or Undef.  *)
(*  - An array is a sequence (1-based; indexes reported to callers are     *)
(*    0-based as in the source).                                           *)
(***************************************************************************)
EXTENDS Integers, Sequences, FiniteSets, TLC

\* ---------------------------------------------------------------------
\* Bounds of the model
\* ---------------------------------------------------------------------
MaxCats == 2
MaxItems == 2
MaxPayments == 3
MaxProjects == 3
MaxSurfaces == 2
MaxLegacy == 2
MaxRuns == 2

\* ---------------------------------------------------------------------
\* JavaScript values
\* ---------------------------------------------------------------------
Undef == "<undefined>"
NaNv == -999999999

\* a truthy value that is no string (a number, an object)
NonString == "<non-string>"

Truthy(s) == s # Undef /\ s # ""

\* the ways a string is written with surrounding whitespace
Paddings == {<<"", "">>, <<" ", "">>, <<"", " ">>, <<" ", " ">>}

Padded(s, p) == p[1] \o s \o p[2]

\* the measurement types of the alias lists, other words, and the empty string
MeasurementWords ==
    {"sqft", "square-foot", "square foot", "single-surface", "linear-foot", "linear ft",
     "linear", "by-unit", "by unit", "unit", "units", "meters", "sq ft", "sqfts", ""}

\* the same words written with capitals, each with its lower-case form
Capitalised ==
    {<<"SQFT", "sqft">>, <<"Square-Foot", "square-foot">>, <<"SQUARE FOOT", "square foot">>,
     <<"Single-Surface", "single-surface">>, <<"LINEAR-FOOT", "linear-foot">>,
     <<"Linear Ft", "linear ft">>, <<"LINEAR", "linear">>, <<"BY-UNIT", "by-unit">>,
     <<"By Unit", "by unit">>, <<"UNIT", "unit">>, <<"Units", "units">>,
     <<"METERS", "meters">>, <<"Sq Ft", "sq ft">>}

CapitalWords == {c[1] : c \in Capitalised}

\* trim() of the measurement words written with padding
TrimmedWords ==
    [x \in {Padded(w, p) : w \in MeasurementWords \cup CapitalWords,
                           p \in Paddings \ {<<"", "">>}} |->
        CHOOSE w \in MeasurementWords \cup CapitalWords : \E p \in Paddings : Padded(w, p) = x]

\* toLowerCase() of the capitalised words, padded or not
LoweredWords ==
    [x \in {Padded(w, p) : w \in CapitalWords, p \in Paddings} |->
        LET c == CHOOSE c \in Capitalised : \E p \in Paddings : Padded(c[1], p) = x
        IN Padded(c[2], CHOOSE p \in Paddings : Padded(c[1], p) = x)]

TrimTable ==
    "   " :> "" @@
    " custom-work-type " :> "custom-work-type" @@
    " kitchen-flooring" :> "kitchen-flooring" @@
    "custom_a " :> "custom_a" @@
    " kitchen" :> "kitchen" @@
    " K " :> "K"

Trim(s) ==
    IF s \in DOMAIN TrimTable THEN TrimTable[s]
    ELSE IF s \in DOMAIN TrimmedWords THEN TrimmedWords[s] ELSE s

LowerTable ==
    "Square Foot" :> "square foot" @@
    "SQFT" :> "sqft" @@
    " Linear FT " :> " linear ft " @@
    "By-Unit" :> "by-unit"

ToLowerCase(s) ==
    IF s \in DOMAIN LowerTable THEN LowerTable[s]
    ELSE IF s \in DOMAIN LoweredWords THEN LoweredWords[s] ELSE s

StartsWithCustom_(s) == s \in {"custom_", "custom_a", "custom_a ", "custom_b"}

\* Number(x) || 0
NumberOrZero(x) == IF x = NaNv THEN 0 ELSE x

\* parseInt on a value in halves: the fraction is dropped (towards zero)
ParseInt(x) == IF x >= 0 THEN (x \div 2) * 2 ELSE 0 - (((0 - x) \div 2) * 2)

Abs(x) == IF x >= 0 THEN x ELSE 0 - x

\* Number(x.toFixed(2)) of a value x held at `scale` (a multiple of 100):
\* the nearest number of cents, a tie going away from zero
ToFixed2(x, scale) ==
    LET q == scale \div 100
        n == (Abs(x) + (q \div 2)) \div q
    IN IF x >= 0 THEN n ELSE 0 - n

RECURSIVE SumSeq(_)
SumSeq(s) == IF s = <<>> THEN 0 ELSE Head(s) + SumSeq(Tail(s))

RECURSIVE Flatten(_)
Flatten(ss) == IF ss = <<>> THEN <<>> ELSE Head(ss) \o Flatten(Tail(ss))

Map(f(_), s) == [i \in 1..Len(s) |-> f(s[i])]
VALID_WORK_TYPES ==
    "kitchen" :> {
        "kitchen-flooring", "kitchen-tiles", "kitchen-backsplash", "kitchen-ceiling",
        "kitchen-walls", "kitchen-countertop-surface", "kitchen-cabinet-doors",
        "kitchen-island-top", "kitchen-cabinets", "kitchen-countertops", "kitchen-trim",
        "kitchen-island-edge", "kitchen-crown-molding", "kitchen-toe-kicks",
        "kitchen-cabinet-lighting", "kitchen-under-cabinet-strips", "kitchen-sink",
        "kitchen-faucet", "kitchen-lighting", "kitchen-appliance", "kitchen-hood",
        "kitchen-garbage-disposal", "kitchen-cabinet-hardware", "kitchen-outlet",
        "kitchen-switch", "kitchen-pantry-organizer"} @@
    "bathroom" :> {
        "bathroom-flooring", "bathroom-tiles", "bathroom-shower-tiles", "bathroom-walls",
        "bathroom-ceiling", "bathroom-shower-floor", "bathroom-vanity-top",
        "bathroom-mirror-wall", "bathroom-vanity", "bathroom-trim", "bathroom-wainscoting",
        "bathroom-shower-trim", "bathroom-tub-surround", "bathroom-chair-rail",
        "bathroom-towel-bars", "bathroom-grab-bars", "bathroom-faucet",
        "bathroom-shower-faucet", "bathroom-fan", "bathroom-towel-warmer", "bathroom-toilet",
        "bathroom-mirror", "bathroom-lighting", "bathroom-bathtub", "bathroom-shower-ledge",
        "bathroom-medicine-cabinet", "bathroom-outlet", "bathroom-shower-door"} @@
    "living-room" :> {
        "living-room-flooring", "living-room-walls", "living-room-ceiling",
        "living-room-accent-wall", "living-room-fireplace-surround",
        "living-room-built-in-shelving", "living-room-window-treatments", "living-room-trim",
        "living-room-crown-molding", "living-room-wainscoting", "living-room-chair-rail",
        "living-room-baseboard", "living-room-picture-ledge", "living-room-mantle",
        "living-room-cable-management", "living-room-lighting", "living-room-fireplace",
        "living-room-ceiling-fan", "living-room-tv-mount", "living-room-outlet",
        "living-room-switch", "living-room-window", "living-room-door",
        "living-room-built-in-cabinet", "living-room-speaker"} @@
    "bedroom" :> {
        "bedroom-flooring", "bedroom-walls", "bedroom-ceiling", "bedroom-closet-interior",
        "bedroom-accent-wall", "bedroom-window-treatments", "bedroom-headboard-wall",
        "bedroom-trim", "bedroom-closet-shelves", "bedroom-crown-molding", "bedroom-baseboard",
        "bedroom-chair-rail", "bedroom-closet-rods", "bedroom-window-sills",
        "bedroom-built-in-bench", "bedroom-lighting", "bedroom-ceiling-fan", "bedroom-window",
        "bedroom-closet-organizer", "bedroom-door", "bedroom-outlet", "bedroom-switch",
        "bedroom-closet-door", "bedroom-built-in-drawer", "bedroom-mirror"} @@
    "exterior" :> {
        "exterior-deck", "exterior-siding", "exterior-painting", "exterior-roofing",
        "exterior-patio", "exterior-driveway", "exterior-walkway", "exterior-retaining-wall",
        "exterior-fencing", "exterior-trim", "exterior-gutters", "exterior-deck-railing",
        "exterior-soffit", "exterior-fascia", "exterior-foundation-trim",
        "exterior-landscape-edging", "exterior-door", "exterior-window", "exterior-lighting",
        "exterior-mailbox", "exterior-gate", "exterior-outlet", "exterior-shutter",
        "exterior-downspout", "exterior-vent", "exterior-house-number"} @@
    "garage" :> {
        "garage-flooring", "garage-walls", "garage-ceiling", "garage-door-opener",
        "garage-storage-shelves", "garage-workbench", "garage-cabinets", "garage-lighting",
        "garage-outlet", "garage-insulation", "garage-epoxy-coating", "garage-door",
        "garage-window", "garage-ventilation", "garage-wall-organizer",
        "garage-ceiling-storage", "garage-bike-rack", "garage-tool-storage"} @@
    "electricity" :> {
        "electricity-wiring", "electricity-panel-upgrade", "electricity-circuit-breaker",
        "electricity-outlet-installation", "electricity-lighting-fixture",
        "electricity-ceiling-fan-installation", "electricity-switch-installation",
        "electricity-surge-protector", "electricity-grounding-system",
        "electricity-smoke-detector-installation", "electricity-smart-home-integration",
        "electricity-exterior-lighting", "electricity-appliance-circuit"} @@
    "plumbing" :> {
        "plumbing-pipe-installation", "plumbing-faucet-installation",
        "plumbing-toilet-installation", "plumbing-shower-installation",
        "plumbing-sink-installation", "plumbing-water-heater", "plumbing-drain-cleaning",
        "plumbing-leak-repair", "plumbing-valve-replacement", "plumbing-sump-pump",
        "plumbing-water-line", "plumbing-sewer-line"} @@
    "hallway" :> {
        "hallway-flooring", "hallway-walls", "hallway-ceiling", "hallway-lighting",
        "hallway-trim", "hallway-baseboard", "hallway-crown-molding", "hallway-wainscoting",
        "hallway-door", "hallway-runner", "hallway-wall-art-frame", "hallway-console-table",
        "hallway-mirror"} @@
    "general" :> {
        "general-drywall", "general-painting", "general-flooring", "general-ceiling",
        "general-wall-repair", "general-insulation", "general-paneling", "general-wallpaper",
        "general-trim", "general-molding", "general-chair-rail", "general-baseboard",
        "general-door-frame", "general-window-frame", "general-pipe-covering",
        "general-conduit-covering", "general-lighting", "general-window", "general-door",
        "general-outlet", "general-switch", "general-smoke-detector", "general-thermostat",
        "general-ceiling-medallion", "general-vent-cover", "general-access-panel"} @@
    "laundry" :> {
        "laundry-flooring", "laundry-walls", "laundry-ceiling", "laundry-cabinets",
        "laundry-washer", "laundry-dryer", "laundry-sink", "laundry-shelving",
        "laundry-folding-table", "laundry-countertop", "laundry-lighting", "laundry-outlet",
        "laundry-dryer-vent", "laundry-trim", "laundry-baseboard", "laundry-crown-molding",
        "laundry-wainscoting", "laundry-door", "laundry-utility-sink-faucet",
        "laundry-storage-rack", "laundry-ironing-station", "laundry-hanging-rods",
        "laundry-ventilation-fan"} @@
    "dining-room" :> {
        "dining-room-flooring", "dining-room-walls", "dining-room-ceiling",
        "dining-room-chandelier", "dining-room-built-in-buffet", "dining-room-display-cabinet",
        "dining-room-window-treatments", "dining-room-trim", "dining-room-crown-molding",
        "dining-room-wainscoting", "dining-room-chair-rail", "dining-room-baseboard",
        "dining-room-lighting", "dining-room-outlet", "dining-room-switch",
        "dining-room-window", "dining-room-door", "dining-room-accent-wall",
        "dining-room-wall-art-frame", "dining-room-ceiling-medallion",
        "dining-room-serving-hutch"} @@
    "basement" :> {
        "basement-flooring", "basement-walls", "basement-ceiling", "basement-waterproofing",
        "basement-egress-window", "basement-sump-pump", "basement-drop-ceiling",
        "basement-insulation", "basement-lighting", "basement-trim", "basement-baseboard",
        "basement-staircase", "basement-handrail", "basement-storage-shelves",
        "basement-built-in-bar", "basement-home-theater", "basement-outlet", "basement-switch",
        "basement-ventilation", "basement-fireplace", "basement-accent-wall"} @@
    "walk-in-closet" :> {
        "walk-in-closet-flooring", "walk-in-closet-walls", "walk-in-closet-ceiling",
        "walk-in-closet-shelves", "walk-in-closet-rods", "walk-in-closet-drawers",
        "walk-in-closet-organizer", "walk-in-closet-lighting", "walk-in-closet-mirror",
        "walk-in-closet-door", "walk-in-closet-bench", "walk-in-closet-island",
        "walk-in-closet-shoe-rack", "walk-in-closet-trim", "walk-in-closet-baseboard",
        "walk-in-closet-crown-molding", "walk-in-closet-accent-wall", "walk-in-closet-carpet",
        "walk-in-closet-storage-bins", "walk-in-closet-valet-rod"}

\* ---------------------------------------------------------------------
\* models/project.js : helpers
\* ---------------------------------------------------------------------
CustomWorkType == "custom-work-type"

\* property names every object inherits from Object.prototype: a lookup
\* VALID_WORK_TYPES[k] for such a k yields a truthy value that is no array
InheritedKeys == {"constructor", "toString", "__proto__"}

validateCategoryKey(key) ==
    IF ~Truthy(key) THEN FALSE
    ELSE StartsWithCustom_(key) \/ key \in DOMAIN VALID_WORK_TYPES

\* returns TRUE / FALSE, or "throws" (TypeError: validTypes.includes is not a function)
validateWorkType(categoryKey, workType) ==
    IF ~Truthy(categoryKey) \/ ~Truthy(workType) THEN "false"
    ELSE IF workType = CustomWorkType THEN "true"
    ELSE IF StartsWithCustom_(categoryKey) THEN "true"
    ELSE IF categoryKey \in InheritedKeys THEN "throws"
    ELSE IF categoryKey \notin DOMAIN VALID_WORK_TYPES THEN "false"
    ELSE IF workType \in VALID_WORK_TYPES[categoryKey] THEN "true" ELSE "false"

\* a faulty variant of line 69: the comparison is case-sensitive
normalizeCaseSensitive(type) ==
    IF ~Truthy(type) \/ type = NonString THEN "sqft"
    ELSE LET t == Trim(type)
         IN IF t \in {"sqft", "square-foot", "square foot", "single-surface"} THEN "sqft"
            ELSE IF t \in {"linear-foot", "linear ft", "linear"} THEN "linear-foot"
            ELSE IF t \in {"by-unit", "by unit", "unit", "units"} THEN "by-unit"
            ELSE "sqft"

\* src/models/project.js lines 67-74
normalizeToCanonicalMeasurementType(type) ==
    IF ~Truthy(type) \/ type = NonString THEN "sqft"
    ELSE LET t == Trim(ToLowerCase(type))
         IN IF t \in {"sqft", "square-foot", "square foot", "single-surface"} THEN "sqft"
            ELSE IF t \in {"linear-foot", "linear ft", "linear"} THEN "linear-foot"
            ELSE IF t \in {"by-unit", "by unit", "unit", "units"} THEN "by-unit"
            ELSE "sqft"

\* ---------------------------------------------------------------------
\* controllers/api/projects.js : calculation helpers
\* ---------------------------------------------------------------------
\* a null element of surfaces
NullSurface == [null |-> TRUE]

\* a faulty variant of line 13: the item's type is preferred to the surface's
surfaceUnitsByItemType(surface, item) ==
    IF "null" \in DOMAIN surface THEN 0
    ELSE LET type == IF Truthy(item.measurementType) THEN item.measurementType
                     ELSE surface.measurementType
         IN CASE type = "sqft" -> NumberOrZero(surface.sqft)
              [] type = "linear-foot" -> NumberOrZero(surface.linearFt)
              [] type = "by-unit" -> ParseInt(NumberOrZero(surface.units))
              [] OTHER -> 0

\* lines 12-29: what one surface adds to the sum
surfaceUnits(surface, item) ==
    IF "null" \in DOMAIN surface THEN 0
    ELSE LET type == IF Truthy(surface.measurementType) THEN surface.measurementType
                     ELSE item.measurementType
         IN CASE type = "sqft" -> NumberOrZero(surface.sqft)
              [] type = "linear-foot" -> NumberOrZero(surface.linearFt)
              [] type = "by-unit" -> ParseInt(NumberOrZero(surface.units))
              [] OTHER -> 0

\* line 7: !item || !Array.isArray(item.surfaces), for the arguments that say
\* what kind of value they are
hasNoSurfaces(item) ==
    \/ "kind" \in DOMAIN item /\ item.kind # "obj"
    \/ "surfacesIsArray" \in DOMAIN item /\ ~item.surfacesIsArray

\* lines 6-31, in halves of a unit
getUnits(item) ==
    IF hasNoSurfaces(item) THEN 0
    ELSE SumSeq([i \in 1..Len(item.surfaces) |-> surfaceUnits(item.surfaces[i], item)])

\* a faulty variant of line 42: an entry counts whether or not it is paid
amountAlways(p) == IF p.kind = "null" THEN 0 ELSE NumberOrZero(p.amount)

\* lines 42-44: what an entry adds to totalPaid.  isPaid is "true", "false"
\* or absent.
amountIfPaid(p) ==
    IF p.kind # "null" /\ p.isPaid = "true" THEN NumberOrZero(p.amount) ELSE 0

\* lines 45-47: what an entry adds to depositAmount
amountIfDeposit(p) == IF p.method = "Deposit" THEN amountIfPaid(p) ELSE 0

\* lines 33-52.  payments is [kind, elems]: an array, "undefined" (the
\* parameter's default [] applies) or "other" (no array)
parsePayments(payments) ==
    IF payments.kind # "array" THEN [totalPaid |-> 0, depositAmount |-> 0]
    ELSE [totalPaid |-> SumSeq([i \in 1..Len(payments.elems) |-> amountIfPaid(payments.elems[i])]),
          depositAmount |-> SumSeq([i \in 1..Len(payments.elems) |->
                                      amountIfDeposit(payments.elems[i])])]

\* a faulty variant of line 70: the discount is computed but never subtracted
laborCostDiscountIgnored(laborCostBeforeDiscount, laborDiscountAmount) ==
    laborCostBeforeDiscount * 100

\* line 70
laborCostAfterDiscount(laborCostBeforeDiscount, laborDiscountAmount) ==
    laborCostBeforeDiscount * 100 - laborDiscountAmount

\* lines 55-64: the two sums over all work items, cents x halves (200 to the dollar)
itemSums(items) ==
    [materialCost |-> SumSeq([i \in 1..Len(items) |->
                         NumberOrZero(items[i].materialCost) * getUnits(items[i])]),
     laborCostBeforeDiscount |-> SumSeq([i \in 1..Len(items) |->
                         NumberOrZero(items[i].laborCost) * getUnits(items[i])])]

\* a faulty variant of line 86: the sum of the parts as they are returned,
\* each already rounded to the cent
grandTotalOfRounded(subtotal, markupAmount, taxAmount, miscFeesTotal, transportationFee) ==
    (ToFixed2(subtotal, 20000) + ToFixed2(markupAmount, 2000000)
        + ToFixed2(taxAmount, 2000000) + miscFeesTotal + transportationFee) * 20000

\* line 86, 2000000 to the dollar
grandTotalOf(subtotal, markupAmount, taxAmount, miscFeesTotal, transportationFee) ==
    subtotal * 100 + markupAmount + taxAmount + (miscFeesTotal + transportationFee) * 20000

\* lines 66-101
settingsTotals(sums, s) ==
    LET materialCost == sums.materialCost
        laborCostBeforeDiscount == sums.laborCostBeforeDiscount
        \* rates in hundredths: 20000 to the dollar
        laborDiscountRate == NumberOrZero(s.laborDiscount)
        laborDiscountAmount == laborCostBeforeDiscount * laborDiscountRate
        laborCost == laborCostAfterDiscount(laborCostBeforeDiscount, laborDiscountAmount)
        wasteFactorRate == NumberOrZero(s.wasteFactor)
        wasteCost == materialCost * wasteFactorRate
        materialCostWithWaste == materialCost * 100 + wasteCost
        subtotal == materialCostWithWaste + laborCost
        \* 2000000 to the dollar
        markupRate == NumberOrZero(s.markup)
        markupAmount == subtotal * markupRate
        taxRate == NumberOrZero(s.taxRate)
        taxAmount == subtotal * taxRate
        \* cents
        miscFeesTotal == SumSeq([i \in 1..Len(s.miscFees) |-> NumberOrZero(s.miscFees[i].amount)])
        transportationFee == NumberOrZero(s.transportationFee)
        grandTotal == grandTotalOf(subtotal, markupAmount, taxAmount,
                                   miscFeesTotal, transportationFee)
    IN [materialCost |-> ToFixed2(materialCost, 200),
        laborCost |-> ToFixed2(laborCost, 20000),
        laborCostBeforeDiscount |-> ToFixed2(laborCostBeforeDiscount, 200),
        laborDiscount |-> ToFixed2(laborDiscountAmount, 20000),
        wasteCost |-> ToFixed2(wasteCost, 20000),
        taxAmount |-> ToFixed2(taxAmount, 2000000),
        markupAmount |-> ToFixed2(markupAmount, 2000000),
        miscFeesTotal |-> ToFixed2(miscFeesTotal, 100),
        transportationFee |-> ToFixed2(transportationFee, 100),
        subtotal |-> ToFixed2(subtotal, 20000),
        total |-> ToFixed2(grandTotal, 2000000)]

calculateCostsAndTotals(categories, settings) ==
    settingsTotals(itemSums(Flatten([c \in 1..Len(categories) |-> categories[c].workItems])),
                   settings)

\* ---------------------------------------------------------------------
\* controllers/api/projects.js : Category/WorkItem Sanitizer
\* ---------------------------------------------------------------------
\* A raw category or work item is a record with a `kind`: "obj" (an object),
\* "null" (null or undefined) or "prim" (a string, number or boolean).
\* a faulty variant of line 138: a whitespace-only type is not recognised
IsMissingType(item) == ~Truthy(item.type)

\* line 138
IsBlankType(item) == ~Truthy(item.type) \/ Trim(item.type) = ""

IsBlankName(item) == ~Truthy(item.customWorkTypeName) \/ Trim(item.customWorkTypeName) = ""

OrDefault(s, d) == IF Truthy(s) THEN s ELSE d

\* lines 131-156: TRUE when the forEach callback returns before building the item
skipItem(item) ==
    \/ item.kind # "obj"
    \/ IsBlankType(item)
    \/ (item.type = CustomWorkType /\ IsBlankName(item))

\* lines 159-171
fixedItem(item, category) ==
    [name |-> OrDefault(item.name, "Unnamed Work Item"),
     customWorkTypeName |-> OrDefault(item.customWorkTypeName, ""),
     type |-> Trim(item.type),
     subtype |-> OrDefault(item.subtype, ""),
     description |-> OrDefault(item.description, ""),
     surfaces |-> IF item.surfacesIsArray THEN item.surfaces ELSE <<>>,
     materialCost |-> NumberOrZero(item.materialCost),
     laborCost |-> NumberOrZero(item.laborCost),
     notes |-> OrDefault(item.notes, ""),
     measurementType |-> OrDefault(item.measurementType, "sqft"),
     categoryKey |-> category.key]

RECURSIVE validWorkItems(_, _)
validWorkItems(items, category) ==
    IF items = <<>> THEN <<>>
    ELSE IF skipItem(Head(items)) THEN validWorkItems(Tail(items), category)
    ELSE <<fixedItem(Head(items), category)>> \o validWorkItems(Tail(items), category)

\* a faulty variant of lines 197-203: categories left without items are removed
keepCategoryWithItems(category) == category.workItems # <<>>

\* lines 197-203: the callback of filter
keepCategory(category) == TRUE

\* a faulty variant of line 122: the name is not looked at
missingKey(category) == ~Truthy(category.key)

\* line 122
missingFields(category) == ~Truthy(category.key) \/ ~Truthy(category.name)

MissingFieldsMessage(catIndex) ==
    "Category at index " \o ToString(catIndex) \o " is missing required fields (key or name)"

\* The result of a call: [ok |-> TRUE, value |-> the returned array], or
\* [ok |-> FALSE, name |-> the error's name, message |-> its message]
ensureCategoryKeys(categories) ==
    IF categories.kind # "array" THEN [ok |-> TRUE, value |-> <<>>]
    ELSE
    LET cats == categories.elems
        \* the callback of map throws at the first object without key or name
        bad == {i \in 1..Len(cats) : cats[i].kind = "obj" /\ missingFields(cats[i])}
        first == CHOOSE i \in bad : \A j \in bad : i <= j
        \* a category that is no object was returned unchanged by map;
        \* the callback of filter reads its workItems.length
        notObj == {i \in 1..Len(cats) : cats[i].kind # "obj"}
    IN IF bad # {}
         THEN [ok |-> FALSE, name |-> "Error", message |-> MissingFieldsMessage(first - 1)]
       ELSE IF notObj # {}
         THEN [ok |-> FALSE, name |-> "TypeError",
               message |-> IF cats[CHOOSE i \in notObj : \A j \in notObj : i <= j].kind = "null"
                           THEN "Cannot read properties of null (reading 'workItems')"
                           ELSE "Cannot read properties of undefined (reading 'length')"]
       ELSE [ok |-> TRUE,
             value |-> SelectSeq([i \in 1..Len(cats) |->
                                    [name |-> cats[i].name,
                                     key |-> cats[i].key,
                                     workItems |-> validWorkItems(cats[i].workItems, cats[i])]],
                                 keepCategory)]

\* ---------------------------------------------------------------------
\* models/project.js : schemas (casting, defaults, setters)
\* ---------------------------------------------------------------------
DefaultNumber(x) == IF x = NaNv THEN 0 ELSE x

DefaultString(s, d) == IF s = Undef THEN d ELSE s

castSurface(s) ==
    [measurementType |-> s.measurementType,
     sqft |-> DefaultNumber(s.sqft),
     linearFt |-> DefaultNumber(s.linearFt),
     units |-> DefaultNumber(s.units)]

castWorkItem(item) ==
    [name |-> Trim(item.name),
     customWorkTypeName |-> Trim(DefaultString(item.customWorkTypeName, "")),
     type |-> Trim(item.type),
     subtype |-> Trim(DefaultString(item.subtype, "")),
     description |-> Trim(DefaultString(item.description, "")),
     surfaces |-> [i \in 1..Len(item.surfaces) |-> castSurface(item.surfaces[i])],
     materialCost |-> DefaultNumber(item.materialCost),
     laborCost |-> DefaultNumber(item.laborCost),
     notes |-> Trim(DefaultString(item.notes, "")),
     measurementType |-> DefaultString(item.measurementType, "sqft"),
     categoryKey |-> item.categoryKey]

castCategory(category) ==
    [name |-> Trim(category.name),
     key |-> Trim(category.key),
     workItems |-> [i \in 1..Len(category.workItems) |-> castWorkItem(category.workItems[i])]]

castPayment(p) ==
    [date |-> p.date,
     amount |-> p.amount,
     method |-> DefaultString(p.method, "Cash"),
     isPaid |-> DefaultString(p.isPaid, "true")]

castSettings(s) ==
    [taxRate |-> DefaultNumber(s.taxRate),
     transportationFee |-> DefaultNumber(s.transportationFee),
     wasteFactor |-> DefaultNumber(s.wasteFactor),
     laborDiscount |-> DefaultNumber(s.laborDiscount),
     markup |-> DefaultNumber(s.markup),
     miscFees |-> s.miscFees,
     payments |-> [i \in 1..Len(s.payments.elems) |-> castPayment(s.payments.elems[i])]]

\* new Project(projectData), and the casting of { $set: projectData }
castProject(data) ==
    [userId |-> data.userId,
     customerInfo |-> data.customerInfo,
     categories |-> [i \in 1..Len(data.categories) |-> castCategory(data.categories[i])],
     settings |-> castSettings(data.settings),
     totals |-> data.totals,
     paymentDetails |-> data.paymentDetails]

\* ---------------------------------------------------------------------
\* models/project.js : projectSchema.pre('validate')
\* ---------------------------------------------------------------------
JoinAddress(ci) ==
    LET parts == SelectSeq(<<ci.addressNumber, ci.direction, ci.streetName, ci.streetType>>, Truthy)
        RECURSIVE join(_)
        join(p) == IF p = <<>> THEN ""
                   ELSE IF Len(p) = 1 THEN p[1] ELSE p[1] \o " " \o join(Tail(p))
    IN Trim(join(parts))

\* a faulty variant of lines 287-292: the components are appended to the street
preValidateCustomerInfoAppending(ci) ==
    IF Truthy(ci.addressNumber) \/ Truthy(ci.streetName)
    THEN [ci EXCEPT !.street = IF Truthy(ci.street) THEN ci.street \o " " \o JoinAddress(ci)
                               ELSE JoinAddress(ci)]
    ELSE ci

\* lines 285-293
preValidateCustomerInfo(ci) ==
    IF Truthy(ci.addressNumber) \/ Truthy(ci.streetName)
    THEN [ci EXCEPT !.street = JoinAddress(ci)]
    ELSE ci

preValidateItem(item, category) ==
    [item EXCEPT
       !.categoryKey = category.key,
       !.measurementType = normalizeToCanonicalMeasurementType(item.measurementType),
       !.surfaces = [i \in 1..Len(item.surfaces) |->
                       [item.surfaces[i] EXCEPT !.measurementType =
                           normalizeToCanonicalMeasurementType(item.surfaces[i].measurementType)]]]

preValidate(doc) ==
    [doc EXCEPT
       !.customerInfo = preValidateCustomerInfo(doc.customerInfo),
       !.categories = [c \in 1..Len(doc.categories) |->
            [doc.categories[c] EXCEPT !.workItems =
                [i \in 1..Len(doc.categories[c].workItems) |->
                    preValidateItem(doc.categories[c].workItems[i], doc.categories[c])]]]]

\* ---------------------------------------------------------------------
\* models/project.js : schema validators
\* ---------------------------------------------------------------------
ValErr(path, message) == [path |-> path, message |-> message]

\* workItemSchema.type.validate.validator
typeValidator(item, parent) ==
    LET categoryKey == IF ~Truthy(item.categoryKey) /\ Truthy(parent.key)
                       THEN parent.key ELSE item.categoryKey
    IN IF ~Truthy(categoryKey) THEN TRUE
       ELSE validateWorkType(categoryKey, item.type) = "true"

\* The receiver of a function called without one in a non-strict module: the
\* global object.  It has no categoryKey and no parent method.
GlobalObject == [categoryKey |-> Undef, parentKey |-> Undef]

\* workItemSchema.type.validate.message, lines 144-147, called with receiver
\* `this` (parentKey stands for this.parent?.()?.key)
typeMessage(this, value) ==
    "'" \o value \o "' is not a valid work type for category '"
        \o (IF Truthy(this.categoryKey) THEN this.categoryKey
            ELSE IF Truthy(this.parentKey) THEN this.parentKey ELSE "unknown")
        \o "'."

\* workItemSchema.customWorkTypeName.validate.validator
customWorkTypeNameValidator(item) ==
    IF item.type = CustomWorkType
    THEN Truthy(item.customWorkTypeName) /\ Trim(item.customWorkTypeName) # ""
    ELSE TRUE

surfaceErrors(prefix, s) ==
    (IF ~Truthy(s.measurementType)
       THEN <<ValErr(prefix \o ".measurementType", "Path measurementType is required.")>>
       ELSE <<>>)
    \o (IF s.sqft < 0 THEN <<ValErr(prefix \o ".sqft", "Path sqft is less than minimum allowed value (0).")>> ELSE <<>>)
    \o (IF s.linearFt < 0 THEN <<ValErr(prefix \o ".linearFt", "Path linearFt is less than minimum allowed value (0).")>> ELSE <<>>)
    \o (IF s.units < 0 THEN <<ValErr(prefix \o ".units", "Path units is less than minimum allowed value (0).")>> ELSE <<>>)

workItemErrors(prefix, item, parent) ==
    (IF ~Truthy(item.name)
       THEN <<ValErr(prefix \o ".name", "Work item name is required.")>> ELSE <<>>)
    \o (IF ~customWorkTypeNameValidator(item)
       THEN <<ValErr(prefix \o ".customWorkTypeName",
                     "Custom work type name is required when using custom work types.")>>
       ELSE <<>>)
    \o (IF ~Truthy(item.type)
       THEN <<ValErr(prefix \o ".type", "Work item type is required.")>>
       ELSE IF ~typeValidator(item, parent)
       \* Mongoose builds the ValidatorError's text with message(props): no receiver
       THEN <<ValErr(prefix \o ".type", typeMessage(GlobalObject, item.type))>>
       ELSE <<>>)
    \o Flatten([i \in 1..Len(item.surfaces) |->
                  surfaceErrors(prefix \o ".surfaces." \o ToString(i - 1), item.surfaces[i])])
    \o (IF item.materialCost < 0 THEN <<ValErr(prefix \o ".materialCost", "Path materialCost is less than minimum allowed value (0).")>> ELSE <<>>)
    \o (IF item.laborCost < 0 THEN <<ValErr(prefix \o ".laborCost", "Path laborCost is less than minimum allowed value (0).")>> ELSE <<>>)
    \o (IF ~Truthy(item.measurementType)
       THEN <<ValErr(prefix \o ".measurementType", "Path measurementType is required.")>> ELSE <<>>)

categoryErrors(prefix, category) ==
    (IF ~Truthy(category.name)
       THEN <<ValErr(prefix \o ".name", "Category name is required.")>> ELSE <<>>)
    \o (IF ~Truthy(category.key)
       THEN <<ValErr(prefix \o ".key", "Category key is required.")>>
       ELSE IF ~validateCategoryKey(category.key)
       THEN <<ValErr(prefix \o ".key", "Invalid category key.")>>
       ELSE <<>>)
    \o Flatten([i \in 1..Len(category.workItems) |->
                  workItemErrors(prefix \o ".workItems." \o ToString(i - 1),
                                 category.workItems[i], category)])

RangeErr(path, x, lo, hi) ==
    IF x < lo THEN <<ValErr(path, "Path is less than minimum allowed value.")>>
    ELSE IF x > hi THEN <<ValErr(path, "Path is more than maximum allowed value.")>>
    ELSE <<>>

settingsErrors(s) ==
    RangeErr("settings.taxRate", s.taxRate, 0, 100)
    \o (IF s.transportationFee < 0
          THEN <<ValErr("settings.transportationFee", "Path is less than minimum allowed value.")>>
          ELSE <<>>)
    \o RangeErr("settings.wasteFactor", s.wasteFactor, 0, 100)
    \o RangeErr("settings.laborDiscount", s.laborDiscount, 0, 100)
    \o RangeErr("settings.markup", s.markup, 0, 1000)
    \o Flatten([i \in 1..Len(s.miscFees) |->
          (IF ~Truthy(s.miscFees[i].name)
             THEN <<ValErr("settings.miscFees." \o ToString(i - 1) \o ".name", "Fee name is required.")>>
             ELSE <<>>)
          \o (IF s.miscFees[i].amount = NaNv
             THEN <<ValErr("settings.miscFees." \o ToString(i - 1) \o ".amount", "Path amount is required.")>>
             ELSE IF s.miscFees[i].amount < 0
             THEN <<ValErr("settings.miscFees." \o ToString(i - 1) \o ".amount", "Path is less than minimum allowed value.")>>
             ELSE <<>>)])
    \o Flatten([i \in 1..Len(s.payments) |->
          (IF ~Truthy(s.payments[i].date)
             THEN <<ValErr("settings.payments." \o ToString(i - 1) \o ".date", "Path date is required.")>>
             ELSE <<>>)
          \o (IF s.payments[i].amount = NaNv
             THEN <<ValErr("settings.payments." \o ToString(i - 1) \o ".amount", "Path amount is required.")>>
             ELSE IF s.payments[i].amount < 1
             THEN <<ValErr("settings.payments." \o ToString(i - 1) \o ".amount", "Path is less than minimum allowed value.")>>
             ELSE <<>>)
          \o (IF s.payments[i].method \notin {"Credit", "Debit", "Check", "Cash", "Zelle", "Deposit"}
             THEN <<ValErr("settings.payments." \o ToString(i - 1) \o ".method", "Not a valid enum value.")>>
             ELSE <<>>)])

customerInfoErrors(ci) ==
    (IF ~Truthy(ci.street)
       THEN <<ValErr("customerInfo.street", "Street address is required.")>> ELSE <<>>)
    \o (IF ~Truthy(ci.projectName)
       THEN <<ValErr("customerInfo.projectName", "Project name is required.")>> ELSE <<>>)

\* the ValidationError's errors, in document order (empty: the document is valid)
validationErrors(doc) ==
    customerInfoErrors(doc.customerInfo)
    \o (IF Len(doc.categories) = 0
          THEN <<ValErr("categories", "Project must have at least one category.")>> ELSE <<>>)
    \o Flatten([c \in 1..Len(doc.categories) |->
                  categoryErrors("categories." \o ToString(c - 1), doc.categories[c])])
    \o settingsErrors(doc.settings)

\* ---------------------------------------------------------------------
\* The project collection and the requests
\* ---------------------------------------------------------------------
Users == {"u1", "u2"}

\* the identifiers the collection can hand out
Ids == {"p1"}

\* req.params.id: an identifier of the collection, or a string that is no ObjectId
RequestIds == Ids \cup {"not-an-id"}

\* the cast of the filter's _id to ObjectId succeeds
IsObjectId(id) == id \in Ids

NoProject == [absent |-> TRUE]

NoData == [none |-> TRUE]

NoRequest == [op |-> "none"]

NoResponse == [status |-> 0]

Json(status, error, has, details, paths, project) ==
    [status |-> status, error |-> error, has |-> has,
     details |-> details, paths |-> paths, project |-> project]

\* lines 219-228: the logging loop reads cat.name and item.type of every
\* element; a null element raises a TypeError
loggingThrows(categories) ==
    \/ categories.kind = "other"
    \/ \E c \in 1..Len(categories.elems) :
          \/ categories.elems[c].kind = "null"
          \/ /\ categories.elems[c].kind = "obj"
             /\ \E i \in 1..Len(categories.elems[c].workItems) :
                    categories.elems[c].workItems[i].kind = "null"

\* a faulty variant of line 247: counts the categories, not their items
totalCategories(fixedCategories) == Len(fixedCategories)

\* line 247
totalWorkItems(fixedCategories) ==
    SumSeq([c \in 1..Len(fixedCategories) |-> Len(fixedCategories[c].workItems)])

\* a faulty variant of line 286: a userId in the payload is preferred
ownerFromPayload(user, body) == IF body.userId # Undef THEN body.userId ELSE user

\* line 286: userId: req.user._id
ownerOf(user, body) == user

\* a faulty variant of line 283: the balance is not clamped at zero
assembledUnclamped(user, body, fixedCategories, costs, paid) ==
    [userId |-> ownerOf(user, body),
     customerInfo |-> body.customerInfo,
     categories |-> fixedCategories,
     settings |-> body.settings,
     totals |-> costs,
     paymentDetails |-> [grandTotal |-> costs.total,
                         totalPaid |-> paid.totalPaid,
                         totalDue |-> costs.total - paid.totalPaid,
                         depositAmount |-> paid.depositAmount]]

\* lines 280, 283-298: Math.max(0, grandTotal - totalPaid) and the assembly
assembled(user, body, fixedCategories, costs, paid) ==
    [userId |-> ownerOf(user, body),
     customerInfo |-> body.customerInfo,
     categories |-> fixedCategories,
     settings |-> body.settings,
     totals |-> costs,
     paymentDetails |-> [grandTotal |-> costs.total,
                         totalPaid |-> paid.totalPaid,
                         totalDue |-> IF costs.total - paid.totalPaid > 0
                                      THEN costs.total - paid.totalPaid ELSE 0,
                         depositAmount |-> paid.depositAmount]]

\* a faulty variant of lines 277-298: totals and paymentDetails of the payload
\* are kept when the payload has them
projectDataFromPayload(body, user, fixedCategories) ==
    [assembled(user, body, fixedCategories,
               calculateCostsAndTotals(fixedCategories, body.settings),
               parsePayments(body.settings.payments))
       EXCEPT !.totals = IF body.totals.total # NaNv THEN body.totals ELSE @,
              !.paymentDetails = IF body.paymentDetails.grandTotal # NaNv
                                 THEN body.paymentDetails ELSE @]

\* lines 277-298
projectData(body, user, fixedCategories) ==
    assembled(user, body, fixedCategories,
              calculateCostsAndTotals(fixedCategories, body.settings),
              parsePayments(body.settings.payments))

ServerError(message) ==
    Json(500, "An internal server error occurred.", {"error", "details"}, <<message>>, <<>>, NoProject)

\* a faulty variant of lines 361-365: the cast error is answered without paths
InvalidDataFormatWithoutPaths(id) ==
    Json(400, "Invalid data format.", {"error", "details"},
         <<"Cast to ObjectId failed for value '" \o id \o "' (type string) at path '_id'">>,
         <<>>, NoProject)

\* lines 359-366: a CastError of the filter { _id: req.params.id }
InvalidDataFormat(id) ==
    Json(400, "Invalid data format.", {"error", "details", "paths"},
         <<"Cast to ObjectId failed for value '" \o id \o "' (type string) at path '_id'">>,
         <<"_id">>, NoProject)

ValidationFailed(errs) ==
    Json(400, "Validation failed.", {"error", "details", "paths", "fullError"},
         [i \in 1..Len(errs) |-> errs[i].message],
         [i \in 1..Len(errs) |-> errs[i].path], NoProject)

\* Each of the following returns the response, the projectData handed to the
\* persistence layer (NoData when no persistence call is made) and the
\* collection after the request.

\* a faulty variant of lines 311-321: the filter lacks userId
updatedOfAnyOwner(doc, errs, data, user, id, dbOk, st) ==
    IF ~IsObjectId(id) THEN [resp |-> InvalidDataFormat(id), handed |-> data, store |-> st]
    ELSE IF errs # <<>> THEN [resp |-> ValidationFailed(errs), handed |-> data, store |-> st]
    ELSE IF ~dbOk THEN [resp |-> ServerError("database error"), handed |-> data, store |-> st]
    ELSE IF id \notin DOMAIN st \/ st[id] = NoProject
    THEN [resp |-> Json(404, "Project not found or you do not have permission to edit it.",
                        {"error"}, <<>>, <<>>, NoProject),
          handed |-> data, store |-> st]
    ELSE [resp |-> Json(200, "", {}, <<>>, <<>>, doc), handed |-> data,
          store |-> [st EXCEPT ![id] = doc]]

\* lines 311-321, 330: findOneAndUpdate with runValidators, given the cast
\* update and its validation errors; the filter is cast first, and an _id that
\* is no ObjectId raises a CastError
updated(doc, errs, data, user, id, dbOk, st) ==
    IF ~IsObjectId(id) THEN [resp |-> InvalidDataFormat(id), handed |-> data, store |-> st]
    ELSE IF errs # <<>> THEN [resp |-> ValidationFailed(errs), handed |-> data, store |-> st]
    ELSE IF ~dbOk THEN [resp |-> ServerError("database error"), handed |-> data, store |-> st]
    ELSE IF id \notin DOMAIN st \/ st[id] = NoProject \/ st[id].userId # user
    THEN [resp |-> Json(404, "Project not found or you do not have permission to edit it.",
                        {"error"}, <<>>, <<>>, NoProject),
          handed |-> data, store |-> st]
    ELSE [resp |-> Json(200, "", {}, <<>>, <<>>, doc), handed |-> data,
          store |-> [st EXCEPT ![id] = doc]]

\* lines 324-330: save(), given the document after the pre-validate hook and
\* its validation errors
saved(doc, errs, data, dbOk, st) ==
    IF errs # <<>> THEN [resp |-> ValidationFailed(errs), handed |-> data, store |-> st]
    ELSE IF ~dbOk THEN [resp |-> ServerError("database error"), handed |-> data, store |-> st]
    ELSE [resp |-> Json(201, "", {}, <<>>, <<>>, doc), handed |-> data,
          store |-> [st EXCEPT ![CHOOSE i \in DOMAIN st : st[i] = NoProject] = doc]]

findOneAndUpdate(doc, data, user, id, dbOk, st) ==
    updated(doc, validationErrors(doc), data, user, id, dbOk, st)

save(doc, data, dbOk, st) == saved(doc, validationErrors(doc), data, dbOk, st)

\* lines 302-330: Project.findOneAndUpdate / new Project(projectData).save()
persist(data, user, isUpdate, id, dbOk, st) ==
    IF isUpdate
    THEN findOneAndUpdate(castProject(data), data, user, id, dbOk, st)
    ELSE save(preValidate(castProject(data)), data, dbOk, st)

\* lines 241-330: from the sanitizer's result on
withFixedCategories(fixed, body, user, isUpdate, id, dbOk, st) ==
    IF ~fixed.ok
      THEN [resp |-> Json(400, "Validation failed.", {"error", "details", "paths"},
                          <<fixed.message>>, <<"categories">>, NoProject),
            handed |-> NoData, store |-> st]
    ELSE IF totalWorkItems(fixed.value) = 0
      THEN [resp |-> Json(400, "Validation failed.", {"error", "details", "paths"},
                          <<"No complete work items found.",
                            "Please ensure each work item has a work type selected.",
                            "Custom work types must have a name specified.">>,
                          <<"categories.workItems">>, NoProject),
            handed |-> NoData, store |-> st]
    ELSE persist(projectData(body, user, fixed.value), user, isUpdate, id, dbOk, st)

\* lines 216-330: from the destructured categories on
withCategories(categories, body, user, isUpdate, id, dbOk, st) ==
    IF loggingThrows(categories)
      THEN [resp |-> ServerError("TypeError"), handed |-> NoData, store |-> st]
    ELSE IF Len(categories.elems) = 0
      THEN [resp |-> Json(400, "Validation failed.", {"error", "details", "paths"},
                          <<"Project must have at least one category">>,
                          <<"categories">>, NoProject),
            handed |-> NoData, store |-> st]
    ELSE withFixedCategories(ensureCategoryKeys(categories), body, user, isUpdate, id, dbOk, st)

\* lines 209-383
createOrUpdate(body, user, isUpdate, id, dbOk, st) ==
    withCategories(IF body.categories.kind = "undefined"
                   THEN [kind |-> "array", elems |-> <<>>] ELSE body.categories,
                   body, user, isUpdate, id, dbOk, st)

\* lines 443-458; a CastError of the filter is caught like any other error
deleteProject(user, id, dbOk, st) ==
    IF ~dbOk \/ ~IsObjectId(id)
    THEN [resp |-> Json(500, "Server error deleting project.", {"error"}, <<>>, <<>>, NoProject),
          store |-> st]
    ELSE IF id \notin DOMAIN st \/ st[id] = NoProject \/ st[id].userId # user
    THEN [resp |-> Json(404, "Project not found.", {"error"}, <<>>, <<>>, NoProject), store |-> st]
    ELSE [resp |-> Json(200, "", {"message"}, <<>>, <<>>, NoProject),
          store |-> [st EXCEPT ![id] = NoProject]]

\* a faulty variant of line 415: every custom work item is taken for corrupt
isCorruptWhenCustom(item) == item.type = CustomWorkType

\* lines 415, and src/models/project.js line 386: a custom work item without a name
isCorrupt(item) ==
    item.type = CustomWorkType
        /\ (~Truthy(item.customWorkTypeName) \/ Trim(item.customWorkTypeName) = "")

\* lines 415-420
repairedItem(item) ==
    IF isCorrupt(item) THEN [item EXCEPT !.customWorkTypeName = "Unnamed Custom Work"] ELSE item

\* lines 412-422: the document after the two forEach loops
repairedProject(project) ==
    [project EXCEPT !.categories =
        [c \in 1..Len(project.categories) |->
            [project.categories[c] EXCEPT !.workItems =
                [i \in 1..Len(project.categories[c].workItems) |->
                    repairedItem(project.categories[c].workItems[i])]]]]

\* lines 410-422: needsRepair after the loops
needsRepair(project) ==
    \E c \in 1..Len(project.categories) :
        \E i \in 1..Len(project.categories[c].workItems) :
            isCorrupt(project.categories[c].workItems[i])

\* a faulty variant of lines 425-433: a failing repair save reaches the outer catch
showFailingWithSave(user, id, findOk, saveOk, st) ==
    IF ~findOk \/ ~IsObjectId(id)
    THEN [resp |-> Json(500, "Server error retrieving project.", {"error"}, <<>>, <<>>, NoProject),
          handed |-> NoData, store |-> st]
    ELSE IF st[id] # NoProject /\ st[id].userId = user /\ needsRepair(st[id]) /\ ~saveOk
    THEN [resp |-> Json(500, "Server error retrieving project.", {"error"}, <<>>, <<>>, NoProject),
          handed |-> repairedProject(st[id]), store |-> st]
    ELSE IF id \notin DOMAIN st \/ st[id] = NoProject \/ st[id].userId # user
    THEN [resp |-> Json(404, "Project not found.", {"error"}, <<>>, <<>>, NoProject),
          handed |-> NoData, store |-> st]
    ELSE [resp |-> Json(200, "", {}, <<>>, <<>>, repairedProject(st[id])),
          handed |-> IF needsRepair(st[id]) THEN repairedProject(st[id]) ELSE NoData,
          store |-> IF needsRepair(st[id])
                    THEN [st EXCEPT ![id] = repairedProject(st[id])] ELSE st]

\* lines 400-441; findOk and saveOk are the outcomes of Project.findOne and of
\* project.save({ validateBeforeSave: false }). The document handed to save()
\* is reported as `handed`.
show(user, id, findOk, saveOk, st) ==
    IF ~findOk \/ ~IsObjectId(id)
    THEN [resp |-> Json(500, "Server error retrieving project.", {"error"}, <<>>, <<>>, NoProject),
          handed |-> NoData, store |-> st]
    ELSE IF id \notin DOMAIN st \/ st[id] = NoProject \/ st[id].userId # user
    THEN [resp |-> Json(404, "Project not found.", {"error"}, <<>>, <<>>, NoProject),
          handed |-> NoData, store |-> st]
    ELSE [resp |-> Json(200, "", {}, <<>>, <<>>, repairedProject(st[id])),
          handed |-> IF needsRepair(st[id]) THEN repairedProject(st[id]) ELSE NoData,
          store |-> IF needsRepair(st[id]) /\ saveOk
                    THEN [st EXCEPT ![id] = repairedProject(st[id])] ELSE st]

\* src/models/project.js lines 374-407: the collection after the scan, given
\* which saves succeed (the report of the scan is followed step by step below)
validateAndRepairProjects(st, saveOk) ==
    [i \in DOMAIN st |->
        IF st[i] # NoProject /\ needsRepair(st[i]) /\ saveOk[i]
        THEN repairedProject(st[i]) ELSE st[i]]

\* ---------------------------------------------------------------------
\* Request payloads
\* ---------------------------------------------------------------------
SeqsUpTo(S, n) == UNION {[1..k -> S] : k \in 0..n}

Surface(mt, sqft, linearFt, units) ==
    [measurementType |-> mt, sqft |-> sqft, linearFt |-> linearFt, units |-> units]

RawItem(type, customName, surfaces, categoryKey) ==
    [kind |-> "obj", name |-> "Floor", customWorkTypeName |-> customName, type |-> type,
     subtype |-> Undef, description |-> Undef, surfacesIsArray |-> TRUE, surfaces |-> surfaces,
     materialCost |-> 199, laborCost |-> 250, notes |-> Undef,
     measurementType |-> "sqft", categoryKey |-> categoryKey]

NotAnObject(kind) == [RawItem(Undef, Undef, <<>>, Undef) EXCEPT !.kind = kind]

\* 1.5 sqft under the canonical name and 0.5 sqft under an alias of it
TwoSurfaces == <<Surface("sqft", 3, NaNv, NaNv), Surface("square-foot", 1, NaNv, NaNv)>>

IGood == RawItem("kitchen-flooring", Undef, TwoSurfaces, "bathroom")
IBlank == RawItem("   ", Undef, TwoSurfaces, Undef)
ICustomNamed == RawItem(CustomWorkType, "Deck", TwoSurfaces, Undef)
ICustomNoName == RawItem(CustomWorkType, "   ", TwoSurfaces, Undef)
IPaddedCustomNoName == RawItem(" custom-work-type ", Undef, TwoSurfaces, Undef)
IBadType == RawItem("bathroom-tiles", Undef, TwoSurfaces, Undef)
\* a standard type with a custom name beside it
IStandardNamed == RawItem("kitchen-flooring", "Deck", TwoSurfaces, Undef)
IPrim == NotAnObject("prim")
INull == NotAnObject("null")

RawCategory(key, name, workItems) ==
    [kind |-> "obj", key |-> key, name |-> name, workItems |-> workItems]

NotACategory(kind) == [RawCategory(Undef, Undef, <<>>) EXCEPT !.kind = kind]

Array(elems) == [kind |-> "array", elems |-> elems]

\* several categories of at most one item each
ManyCategories ==
    SeqsUpTo({RawCategory(k, "Kitchen", w) :
                 k \in {"kitchen", "", "custom_a "},
                 w \in {<<>>, <<IGood>>, <<IBlank>>}}, MaxCats)

\* one category of several items
OneCategory ==
    {<<RawCategory("kitchen", "Kitchen", w)>> :
        w \in SeqsUpTo({IGood, IBlank, ICustomNamed, ICustomNoName, IPaddedCustomNoName,
                        IBadType, IPrim, INull}, MaxItems)}

OddCategories ==
    {<<NotACategory("null")>>,
     <<NotACategory("prim"), RawCategory("kitchen", "Kitchen", <<IGood>>)>>,
     <<NotACategory("prim"), RawCategory(Undef, "Kitchen", <<IGood>>)>>,
     <<RawCategory("kitchen", Undef, <<IGood>>)>>,
     <<RawCategory("kitchen", "Kitchen", <<IGood>>), RawCategory("bathroom", "", <<IGood>>)>>,
     <<RawCategory("bogus", "Shed", <<IGood>>)>>,
     <<RawCategory("kitchen", "Kitchen", <<IGood>>), RawCategory("bogus", "Shed", <<>>)>>,
     <<RawCategory("kitchen", "Kitchen", <<IStandardNamed>>)>>}

RequestCategories ==
    {Array(e) : e \in ManyCategories \cup OneCategory \cup OddCategories}
    \cup {[kind |-> "undefined", elems |-> <<>>], [kind |-> "other", elems |-> <<>>]}

TotalsFields ==
    {"materialCost", "laborCost", "laborCostBeforeDiscount", "laborDiscount", "wasteCost",
     "taxAmount", "markupAmount", "miscFeesTotal", "transportationFee", "subtotal", "total"}

PaymentFields == {"grandTotal", "totalPaid", "totalDue", "depositAmount"}

\* the totals and paymentDetails a caller may put in the payload
\* a payload without derived fields, and one that carries them together with
\* the userId of the second user
PayloadDerived ==
    {[totals |-> [f \in TotalsFields |-> v], paymentDetails |-> [f \in PaymentFields |-> v],
      userId |-> IF v = NaNv THEN Undef ELSE "u2"] :
        v \in {NaNv, 1}}

TheCustomer ==
    [projectName |-> "Deck", street |-> "1 Main St", addressNumber |-> Undef,
     direction |-> Undef, streetName |-> Undef, streetType |-> Undef]

TheSettings ==
    [taxRate |-> 8, transportationFee |-> 250, wasteFactor |-> 10, laborDiscount |-> 50,
     markup |-> 15, miscFees |-> <<[name |-> "Permit", amount |-> 100]>>,
     payments |-> [kind |-> "array",
                   elems |-> <<[kind |-> "obj", date |-> "2024-01-01", amount |-> 500,
                                method |-> "Deposit", isPaid |-> "true"]>>]]

Body(categories, derived) ==
    [customerInfo |-> TheCustomer, categories |-> categories, settings |-> TheSettings,
     totals |-> derived.totals, paymentDetails |-> derived.paymentDetails,
     userId |-> derived.userId]

Paid(amount) ==
    [kind |-> "obj", date |-> "2024-02-01", amount |-> amount, method |-> "Cash",
     isPaid |-> "true"]

\* the one-item project costs 9.84: paid to the cent, and overpaid
PaidUp ==
    {[Body(Array(<<RawCategory("kitchen", "Kitchen", <<IGood>>)>>),
           CHOOSE d \in PayloadDerived : d.totals.total = NaNv)
        EXCEPT !.settings.payments = Array(e)] :
        e \in {<<Paid(984)>>, <<Paid(500), Paid(2000)>>}}

Bodies == {Body(c, d) : c \in RequestCategories, d \in PayloadDerived} \cup PaidUp

\* the second user sends one well-formed payload and one without categories
\* and names the first user where the first user's payloads name the second
OtherUserBodies ==
    {[Body(c, d) EXCEPT !.userId = IF @ = Undef THEN Undef ELSE "u1"] :
        c \in {Array(<<RawCategory("kitchen", "Kitchen", <<IGood>>)>>), Array(<<>>)},
        d \in PayloadDerived}

BodiesOf(u) == IF u = "u1" THEN Bodies ELSE OtherUserBodies

Requests ==
    UNION {{[op |-> "create", user |-> u, id |-> "", body |-> b] : b \in BodiesOf(u)} : u \in Users}
    \cup UNION {{[op |-> "update", user |-> u, id |-> i, body |-> b] : i \in Ids, b \in BodiesOf(u)} :
                   u \in Users}
    \cup {[op |-> "update", user |-> u, id |-> i, body |-> b] :
              u \in Users, i \in RequestIds \ Ids, b \in OtherUserBodies}
    \cup {[op |-> "delete", user |-> u, id |-> i] : u \in Users, i \in RequestIds}
    \cup {[op |-> "show", user |-> u, id |-> i] : u \in Users, i \in RequestIds}

\* a record written under the earlier schema (src/models/project.js line 750:
\* customWorkTypeName without a validator): a standard item and a custom item
\* with no name
LegacyBody ==
    Body(Array(<<RawCategory("kitchen", "Kitchen",
                             <<RawItem("kitchen-flooring", Undef,
                                       <<Surface("sqft", 3, 0, 0)>>, Undef),
                               RawItem(CustomWorkType, "Deck",
                                       <<Surface("sqft", 1, 0, 0)>>, Undef)>>)>>),
         CHOOSE d \in PayloadDerived : d.totals.total = NaNv)

LegacyProject ==
    [preValidate(castProject(projectData(LegacyBody, "u1",
                                         ensureCategoryKeys(LegacyBody.categories).value)))
        EXCEPT !.categories[1].workItems[2].customWorkTypeName = ""]

\* ---------------------------------------------------------------------
\* State
\* ---------------------------------------------------------------------
VARIABLES
    store,     \* the projects collection: id -> document or NoProject
    request,   \* the HTTP request in flight, NoRequest when idle
    phase,     \* "idle", "pending" (request received), "done" (response written)
    response,  \* the response written for `request`
    handed,    \* the projectData the handler passed to the persistence layer
    call       \* a direct call of a helper: its argument and its result

vars == <<store, request, phase, response, handed, call>>

NoCall == [fn |-> "none"]

\* the collection is empty, or holds a record of the earlier schema
Init ==
    /\ store \in {[i \in Ids |-> NoProject], [i \in Ids |-> LegacyProject]}
    /\ request = NoRequest
    /\ phase = "idle"
    /\ response = NoResponse
    /\ handed = NoData
    /\ call = NoCall

Receive ==
    /\ phase = "idle"
    /\ \E r \in Requests :
          /\ r.op = "create" => \E i \in Ids : store[i] = NoProject
          /\ request' = r
    /\ phase' = "pending"
    /\ UNCHANGED <<store, response, handed, call>>

HandleCreate ==
    /\ phase = "pending" /\ request.op = "create"
    /\ \E dbOk \in BOOLEAN :
          \E r \in {createOrUpdate(request.body, request.user, FALSE, request.id, dbOk, store)} :
             /\ store' = r.store
             /\ response' = r.resp
             /\ handed' = r.handed
    /\ phase' = "done"
    /\ UNCHANGED <<request, call>>

HandleUpdate ==
    /\ phase = "pending" /\ request.op = "update"
    /\ \E dbOk \in BOOLEAN :
          \E r \in {createOrUpdate(request.body, request.user, TRUE, request.id, dbOk, store)} :
             /\ store' = r.store
             /\ response' = r.resp
             /\ handed' = r.handed
    /\ phase' = "done"
    /\ UNCHANGED <<request, call>>

HandleDelete ==
    /\ phase = "pending" /\ request.op = "delete"
    /\ \E dbOk \in BOOLEAN :
          \E r \in {deleteProject(request.user, request.id, dbOk, store)} :
             /\ store' = r.store
             /\ response' = r.resp
    /\ handed' = NoData
    /\ phase' = "done"
    /\ UNCHANGED <<request, call>>

\* a faulty variant of show: the repair is made on the response only, the
\* repaired document is never written back
HandleShowWithoutSave ==
    /\ phase = "pending" /\ request.op = "show"
    /\ \E findOk \in BOOLEAN :
          \E r \in {show(request.user, request.id, findOk, FALSE, store)} :
             /\ store' = r.store
             /\ response' = r.resp
             /\ handed' = r.handed
    /\ phase' = "done"
    /\ UNCHANGED <<request, call>>

HandleShow ==
    /\ phase = "pending" /\ request.op = "show"
    /\ \E findOk, saveOk \in BOOLEAN :
          \E r \in {show(request.user, request.id, findOk, saveOk, store)} :
             /\ store' = r.store
             /\ response' = r.resp
             /\ handed' = r.handed
    /\ phase' = "done"
    /\ UNCHANGED <<request, call>>

\* the maintenance job runs validateAndRepairProjects between two requests
RunRepair ==
    /\ phase = "idle"
    /\ \E saveOk \in [Ids -> BOOLEAN] : store' = validateAndRepairProjects(store, saveOk)
    /\ request' = [op |-> "repair"]
    /\ phase' = "done"
    /\ UNCHANGED <<response, handed, call>>

\* the response has been delivered; the server is ready for the next request
Deliver ==
    /\ phase = "done"
    /\ phase' = "idle"
    /\ request' = NoRequest
    /\ response' = NoResponse
    /\ handed' = NoData
    /\ UNCHANGED <<store, call>>

Next ==
    Receive \/ HandleCreate \/ HandleUpdate \/ HandleDelete \/ HandleShow \/ RunRepair \/ Deliver

Spec == Init /\ [][Next]_vars

\* a read whose repair save succeeds
ShowRepairing == HandleShow /\ store' # store

\* repair saves do not fail forever: a read of a corrupt record that is
\* possible again and again is, at some point, one whose save succeeds
SpecFair == Spec /\ SF_vars(ShowRepairing)

\* ---------------------------------------------------------------------
\* Direct calls of calculateCostsAndTotals
\* ---------------------------------------------------------------------
CalcItem(materialCost, laborCost, measurementType, surfaces) ==
    [name |-> "Floor", customWorkTypeName |-> "", type |-> "kitchen-flooring", subtype |-> "",
     description |-> "", surfaces |-> surfaces, materialCost |-> materialCost,
     laborCost |-> laborCost, notes |-> "", measurementType |-> measurementType,
     categoryKey |-> "kitchen"]

\* $1.99 and $2.50 a unit on 1.5 sqft
CalcItemA == CalcItem(199, 250, "sqft", <<Surface("sqft", 3, NaNv, NaNv)>>)
\* material only, by the unit: 1.5 units count as 1
CalcItemB == CalcItem(100, 0, "by-unit", <<Surface(Undef, NaNv, NaNv, 3)>>)
\* labour only, 0.5 ft and 1 ft
CalcItemC == CalcItem(NaNv, 75, "sqft",
                      <<Surface("linear-foot", NaNv, 1, NaNv), Surface("linear-foot", 9, 2, 9)>>)

CalcCategory(workItems) == [name |-> "Kitchen", key |-> "kitchen", workItems |-> workItems]

CalcTrees ==
    SeqsUpTo({CalcCategory(w) : w \in SeqsUpTo({CalcItemA, CalcItemB, CalcItemC}, MaxItems)}, MaxCats)

SmallTrees ==
    {<<>>, <<CalcCategory(<<CalcItemA>>)>>, <<CalcCategory(<<CalcItemB, CalcItemC>>)>>,
     <<CalcCategory(<<CalcItemA>>), CalcCategory(<<CalcItemC>>)>>}

CalcSettings(laborDiscount, wasteFactor, markup, taxRate, fees) ==
    [taxRate |-> taxRate, transportationFee |-> fees.transportationFee,
     wasteFactor |-> wasteFactor, laborDiscount |-> laborDiscount, markup |-> markup,
     miscFees |-> fees.miscFees, payments |-> [kind |-> "array", elems |-> <<>>]]

FeeChoices ==
    {[transportationFee |-> NaNv, miscFees |-> <<>>],
     [transportationFee |-> 250,
      miscFees |-> <<[name |-> "Permit", amount |-> 1234], [name |-> "Dump", amount |-> 66]>>]}

AllSettings ==
    {CalcSettings(d, w, m, t, f) :
        d \in {NaNv, 0, 25, 100}, w \in {0, 10, 100}, m \in {0, 15, 1000}, t \in {0, 8, 100},
        f \in FeeChoices}

TwoSettings ==
    {CalcSettings(0, 0, 0, 8, CHOOSE f \in FeeChoices : f.miscFees = <<>>),
     CalcSettings(50, 10, 15, 8, CHOOSE f \in FeeChoices : f.miscFees # <<>>)}

CalcCalls ==
    {[fn |-> "calculateCostsAndTotals", categories |-> c, settings |-> s, done |-> FALSE] :
        c \in SmallTrees, s \in AllSettings}
    \cup {[fn |-> "calculateCostsAndTotals", categories |-> c, settings |-> s, done |-> FALSE] :
        c \in CalcTrees, s \in TwoSettings}

Idle ==
    /\ store = [i \in Ids |-> NoProject]
    /\ request = NoRequest
    /\ phase = "idle"
    /\ response = NoResponse
    /\ handed = NoData

InitCalc == Idle /\ call \in CalcCalls

CallCalculate ==
    /\ call.fn = "calculateCostsAndTotals" /\ ~call.done
    /\ call' = [fn |-> call.fn, categories |-> call.categories, settings |-> call.settings,
                done |-> TRUE,
                result |-> calculateCostsAndTotals(call.categories, call.settings)]
    /\ UNCHANGED <<store, request, phase, response, handed>>

NextCalc == CallCalculate

SpecCalc == InitCalc /\ [][NextCalc]_vars

\* the sum of f over its (finite) domain
RECURSIVE SetSum(_)
SetSum(f) ==
    IF DOMAIN f = {} THEN 0
    ELSE LET x == CHOOSE x \in DOMAIN f : TRUE
         IN f[x] + SetSum([y \in DOMAIN f \ {x} |-> f[y]])

ItemPositions(categories) ==
    UNION {{<<c, i>> : i \in 1..Len(categories[c].workItems)} : c \in 1..Len(categories)}

CalcDone == call.fn = "calculateCostsAndTotals" /\ call.done

RatesInRange(s) ==
    /\ s.laborDiscount \in 0..100 /\ s.wasteFactor \in 0..100
    /\ s.markup \in 0..1000 /\ s.taxRate \in 0..100

\* M and L of a category tree, 200 to the dollar
RawMaterial(categories) ==
    SetSum([p \in ItemPositions(categories) |->
        NumberOrZero(categories[p[1]].workItems[p[2]].materialCost)
            * getUnits(categories[p[1]].workItems[p[2]])])

RawLabor(categories) ==
    SetSum([p \in ItemPositions(categories) |->
        NumberOrZero(categories[p[1]].workItems[p[2]].laborCost)
            * getUnits(categories[p[1]].workItems[p[2]])])

Fees(s) ==
    SumSeq([i \in 1..Len(s.miscFees) |-> NumberOrZero(s.miscFees[i].amount)])
        + NumberOrZero(s.transportationFee)

\* C1: for rates d, w, t in [0,1] and m in [0,10] and non-negative raw costs M and L,
\* calculateCostsAndTotals returns subtotal = M(1+w) + L(1-d) and
\* total = subtotal(1+m+t) + miscFeesTotal + transportationFee, each rounded to 2
\* decimals; wasteCost is M x w, and markupAmount and taxAmount are the
\* subtotal times m and times t.
C1_SubtotalAndTotal ==
    (CalcDone /\ RatesInRange(call.settings)) =>
        LET s == call.settings
            M == RawMaterial(call.categories)
            L == RawLabor(call.categories)
            sub == M * (100 + s.wasteFactor) + L * (100 - s.laborDiscount)
        IN /\ M >= 0 /\ L >= 0
           /\ call.result.subtotal = ToFixed2(sub, 20000)
           /\ call.result.total =
                 ToFixed2(sub * (100 + s.markup + s.taxRate) + Fees(s) * 20000, 2000000)
           /\ call.result.wasteCost = ToFixed2(M * s.wasteFactor, 20000)
           /\ call.result.markupAmount = ToFixed2(sub * s.markup, 2000000)
           /\ call.result.taxAmount = ToFixed2(sub * s.taxRate, 2000000)

\* a call with all four rates positive, material and labour present, and a
\* subtotal that is not a whole number of cents
C1_Witness ==
    /\ CalcDone /\ RatesInRange(call.settings)
    /\ call.settings.laborDiscount > 0 /\ call.settings.wasteFactor > 0
    /\ call.settings.markup > 0 /\ call.settings.taxRate > 0
    /\ RawMaterial(call.categories) > 0 /\ RawLabor(call.categories) > 0
    /\ call.result.wasteCost > 0 /\ call.result.laborDiscount > 0
    /\ (RawMaterial(call.categories) * (100 + call.settings.wasteFactor)
          + RawLabor(call.categories) * (100 - call.settings.laborDiscount)) % 200 # 0

\* ---------------------------------------------------------------------
\* Direct calls of ensureCategoryKeys
\* ---------------------------------------------------------------------
SanitizerItems ==
    {RawItem(t, n, TwoSurfaces, "bathroom") :
        t \in {"kitchen-flooring", " kitchen-flooring", Undef, "", "   ",
               CustomWorkType, " custom-work-type "},
        n \in {Undef, "", "   ", "Deck"}}
    \cup {IPrim, INull}

SanitizerCategories ==
    {RawCategory(k, n, w) :
        k \in {"kitchen", "", Undef}, n \in {"Kitchen", Undef},
        w \in {<<>>, <<IGood>>, <<IBlank>>}}
    \cup {NotACategory("null"), NotACategory("prim")}

SanitizerCalls ==
    {[fn |-> "ensureCategoryKeys", categories |-> c, done |-> FALSE] :
        c \in {Array(e) : e \in SeqsUpTo(SanitizerCategories, MaxCats)}
              \cup {Array(<<RawCategory("kitchen", "Kitchen", w)>>) :
                       w \in SeqsUpTo(SanitizerItems, MaxItems)}
              \cup {[kind |-> "other", elems |-> <<>>]}}

InitSanitize == Idle /\ call \in SanitizerCalls

CallSanitize ==
    /\ call.fn = "ensureCategoryKeys" /\ ~call.done
    /\ call' = [fn |-> call.fn, categories |-> call.categories, done |-> TRUE,
                result |-> ensureCategoryKeys(call.categories)]
    /\ UNCHANGED <<store, request, phase, response, handed>>

NextSanitize == CallSanitize

SpecSanitize == InitSanitize /\ [][NextSanitize]_vars

SanitizeSucceeded == call.fn = "ensureCategoryKeys" /\ call.done /\ call.result.ok

\* the blank strings of the model: missing, empty, whitespace only
Blank(s) == s \in {Undef, "", "   "}

Droppable(item) == item.kind # "obj" \/ Blank(item.type)

WithoutDroppable(categories) ==
    [categories EXCEPT !.elems =
        [c \in 1..Len(categories.elems) |->
            [categories.elems[c] EXCEPT !.workItems = SelectSeq(@, LAMBDA it : ~Droppable(it))]]]

\* C5: when ensureCategoryKeys succeeds, no output work item has a blank type
\* (and none stems from a non-object); such items are dropped without failing the
\* call, and the output is what the call returns for the same input with these
\* items taken out beforehand, so every other item is unaffected.
C5_BlankAndNonObjectItemsDropped ==
    SanitizeSucceeded =>
        /\ \A c \in 1..Len(call.result.value) :
              \A j \in 1..Len(call.result.value[c].workItems) :
                  ~Blank(call.result.value[c].workItems[j].type)
        /\ \A c \in 1..Len(call.result.value) :
              Len(call.result.value[c].workItems)
                 <= Cardinality({i \in 1..Len(call.categories.elems[c].workItems) :
                                    ~Droppable(call.categories.elems[c].workItems[i])})
        /\ ensureCategoryKeys(WithoutDroppable(call.categories)) = call.result

\* a successful call that dropped a blank-typed item and a non-object and kept
\* another item of the same category
C5_Witness ==
    /\ SanitizeSucceeded
    /\ \E c \in 1..Len(call.result.value) :
          LET in == call.categories.elems[c].workItems
          IN /\ \E i \in 1..Len(in) : in[i].kind = "obj" /\ Blank(in[i].type)
             /\ \E i \in 1..Len(in) : in[i].kind # "obj" \/ in[i].type = "   "
             /\ Len(call.result.value[c].workItems) = 1

\* C6: in the output of ensureCategoryKeys no work item has the type
\* 'custom-work-type' together with a blank customWorkTypeName.
C6_NoUnnamedCustomItemInOutput ==
    SanitizeSucceeded =>
        \A c \in 1..Len(call.result.value) :
            \A j \in 1..Len(call.result.value[c].workItems) :
                ~(/\ call.result.value[c].workItems[j].type = CustomWorkType
                  /\ Blank(call.result.value[c].workItems[j].customWorkTypeName))

\* C8: when ensureCategoryKeys succeeds on an array, the output has as many
\* categories as the input, with the key and the name of the input at each
\* index, also where every work item of a category was dropped.
C8_CategoriesPreserved ==
    SanitizeSucceeded =>
        /\ Len(call.result.value) = Len(call.categories.elems)
        /\ \A c \in 1..Len(call.categories.elems) :
              /\ call.result.value[c].key = call.categories.elems[c].key
              /\ call.result.value[c].name = call.categories.elems[c].name

\* a successful call on two categories, one of which lost all its items
C8_Witness ==
    /\ SanitizeSucceeded
    /\ Len(call.categories.elems) = 2
    /\ \E c \in 1..2 : /\ call.categories.elems[c].workItems # <<>>
                       /\ call.result.value[c].workItems = <<>>
    /\ \E c \in 1..2 : call.result.value[c].workItems # <<>>

\* ---------------------------------------------------------------------
\* Properties of the requests
\* ---------------------------------------------------------------------
Saving == request.op \in {"create", "update"}

Answered == phase = "done" /\ Saving

\* the categories the handler works on (line 211: default [])
Received(body) ==
    IF body.categories.kind = "undefined" THEN Array(<<>>) ELSE body.categories

\* the request gets past the logging loop and the emptiness test
ReachesSanitizer(body) ==
    /\ Received(body).kind = "array"
    /\ Received(body).elems # <<>>
    /\ ~loggingThrows(Received(body))

Stored == {i \in Ids : store[i] # NoProject}

\* C2: every stored project's totals are what calculateCostsAndTotals returns
\* for the stored categories and settings, and its paymentDetails.grandTotal is
\* its totals.total.
C2_StoredTotalsReproducible ==
    \A i \in Stored :
        /\ store[i].totals = calculateCostsAndTotals(store[i].categories, store[i].settings)
        /\ store[i].paymentDetails.grandTotal = store[i].totals.total

\* C3: the totals and paymentDetails of the record handed to the persistence
\* layer, and of the record stored on success, are computed by the handler from
\* the sanitized categories and the settings; the values of the payload are
\* not used.
C3_DerivedFieldsRecomputed ==
    (Answered /\ handed # NoData) =>
        LET fixed == ensureCategoryKeys(Received(request.body)).value
            costs == calculateCostsAndTotals(fixed, request.body.settings)
            paid == parsePayments(request.body.settings.payments)
        IN /\ handed.totals = costs
           /\ handed.paymentDetails.grandTotal = costs.total
           /\ handed.paymentDetails.totalPaid = paid.totalPaid
           /\ handed.paymentDetails.depositAmount = paid.depositAmount
           /\ handed.paymentDetails.totalDue =
                 (IF costs.total > paid.totalPaid THEN costs.total - paid.totalPaid ELSE 0)
           /\ response.status \in {200, 201} =>
                 /\ response.project.totals = handed.totals
                 /\ response.project.paymentDetails = handed.paymentDetails
                 /\ \E i \in Stored : store[i] = response.project

\* a project was stored from a payload that carried its own totals and
\* paymentDetails, and the stored values are not the payload's
C3_Witness ==
    /\ Answered /\ response.status \in {200, 201}
    /\ request.body.totals.total # NaNv
    /\ request.body.paymentDetails.grandTotal # NaNv
    /\ response.project.totals # request.body.totals
    /\ response.project.paymentDetails # request.body.paymentDetails

Lacks(category) ==
    category.kind = "obj" /\ (category.key \in {Undef, ""} \/ category.name \in {Undef, ""})

Lacking(body) == {c \in 1..Len(Received(body).elems) : Lacks(Received(body).elems[c])}

\* C4: when a category that reaches ensureCategoryKeys lacks a key or a name,
\* the request is answered 400 with the sanitizer's message naming the index of
\* the (first) such category and the path 'categories', no record is handed to
\* the persistence layer and the collection is unchanged.
C4_MissingKeyOrNameRejected ==
    [][(phase = "pending" /\ Saving /\ ReachesSanitizer(request.body)
           /\ Lacking(request.body) # {}) =>
         /\ response'.status = 400
         /\ response'.details \in
               {<<MissingFieldsMessage(c - 1)>> : c \in Lacking(request.body)}
         /\ response'.details =
               <<MissingFieldsMessage((CHOOSE c \in Lacking(request.body) :
                                          \A d \in Lacking(request.body) : c <= d) - 1)>>
         /\ response'.paths = <<"categories">>
         /\ handed' = NoData
         /\ store' = store]_vars

\* a request whose second category lacks its name was answered 400, naming
\* index 1, while a project was stored
C4_Witness ==
    /\ Answered /\ ReachesSanitizer(request.body)
    /\ Lacking(request.body) = {2}
    /\ Received(request.body).elems[2].key = "bathroom"
    /\ response.status = 400
    /\ response.details = <<MissingFieldsMessage(1)>>
    /\ handed = NoData
    /\ Stored # {}

Sanitized(body) == ensureCategoryKeys(Received(body))

Survivors(body) ==
    {<<c, j>> \in (1..Len(Sanitized(body).value)) \X (1..MaxItems + 1) :
        j <= Len(Sanitized(body).value[c].workItems)}

NoWorkItemsLeft(resp) == resp.status = 400 /\ resp.paths = <<"categories.workItems">>

C9_CategoryKeyIsParentKey ==
    \A i \in Stored :
        \A c \in 1..Len(store[i].categories) :
            \A j \in 1..Len(store[i].categories[c].workItems) :
                store[i].categories[c].workItems[j].categoryKey = store[i].categories[c].key

\* ---------------------------------------------------------------------
\* Direct calls of validateWorkType
\* ---------------------------------------------------------------------
TableTypes == UNION {VALID_WORK_TYPES[k] : k \in DOMAIN VALID_WORK_TYPES}

WorkTypeCalls ==
    {[fn |-> "validateWorkType", categoryKey |-> k, workType |-> t, done |-> FALSE] :
        k \in DOMAIN VALID_WORK_TYPES \cup InheritedKeys
              \cup {"custom_", "custom_a", "custom_b", "bogus", "Kitchen", "", Undef},
        t \in TableTypes \cup {CustomWorkType, "custom-foo", "bogus", "", Undef}}

InitWorkType == Idle /\ call \in WorkTypeCalls

CallValidateWorkType ==
    /\ call.fn = "validateWorkType" /\ ~call.done
    /\ call' = [fn |-> call.fn, categoryKey |-> call.categoryKey, workType |-> call.workType,
                done |-> TRUE,
                result |-> validateWorkType(call.categoryKey, call.workType)]
    /\ UNCHANGED <<store, request, phase, response, handed>>

NextWorkType == CallValidateWorkType

SpecWorkType == InitWorkType /\ [][NextWorkType]_vars

\* C10: for a non-empty categoryKey and type, validateWorkType returns true
\* when the type is 'custom-work-type'; otherwise true when categoryKey starts
\* with 'custom_'; otherwise true exactly when categoryKey is a key of the
\* taxonomy table and the type is in that key's list, and false otherwise.
C10_DecisionTable ==
    (/\ call.fn = "validateWorkType" /\ call.done
     /\ call.categoryKey \notin {"", Undef} /\ call.workType \notin {"", Undef}) =>
        call.result =
            (IF call.workType = "custom-work-type" THEN "true"
             ELSE IF StartsWithCustom_(call.categoryKey) THEN "true"
             ELSE IF /\ call.categoryKey \in DOMAIN VALID_WORK_TYPES
                     /\ call.workType \in VALID_WORK_TYPES[call.categoryKey]
             THEN "true" ELSE "false")

\* ---------------------------------------------------------------------
\* Taxonomy failures
\* ---------------------------------------------------------------------
\* the work items left by the sanitizer whose type the taxonomy does not
\* permit for the key of their category, as <<category, item>> positions
Unpermitted(body) ==
    {p \in Survivors(body) :
        validateWorkType(Trim(Sanitized(body).value[p[1]].key),
                         Trim(Sanitized(body).value[p[1]].workItems[p[2]].type)) # "true"}

\* the categories whose key is neither a taxonomy key nor a custom_ key
BadKeys(body) ==
    {c \in 1..Len(Sanitized(body).value) : ~validateCategoryKey(Trim(Sanitized(body).value[c].key))}

TaxonomyMismatch(body) ==
    /\ ReachesSanitizer(body) /\ Sanitized(body).ok /\ Survivors(body) # {}
    /\ Unpermitted(body) # {} \/ BadKeys(body) # {}

TypeAndKeyNamed(type, key) ==
    "'" \o type \o "' is not a valid work type for category '" \o key \o "'."

InSeq(x, s) == \E i \in 1..Len(s) : s[i] = x

\* the part of C11 that does not depend on the text of the message
TaxonomyMismatchRejected ==
    [][(phase = "pending" /\ Saving /\ TaxonomyMismatch(request.body)) =>
         /\ response'.status = 400 /\ response'.error = "Validation failed."
         /\ store' = store
         /\ \A p \in Unpermitted(request.body) :
               InSeq("categories." \o ToString(p[1] - 1) \o ".workItems."
                        \o ToString(p[2] - 1) \o ".type", response'.paths)
         /\ \A c \in BadKeys(request.body) :
               InSeq("categories." \o ToString(c - 1) \o ".key", response'.paths)]_vars

\* C11: a create or update with a work item whose type is not permitted for
\* its category, or with a category key that is neither a taxonomy key nor a
\* custom_ key, is answered 400, the collection is unchanged, and the details
\* name the offending type together with the key of its category.
C11_TaxonomyMismatchNamed ==
    [][(phase = "pending" /\ Saving /\ TaxonomyMismatch(request.body)) =>
         /\ response'.status = 400
         /\ store' = store
         /\ \A p \in Unpermitted(request.body) :
               InSeq(TypeAndKeyNamed(Trim(Sanitized(request.body).value[p[1]].workItems[p[2]].type),
                                     Trim(Sanitized(request.body).value[p[1]].key)),
                     response'.details)
         /\ \A c \in BadKeys(request.body) :
               InSeq("categories." \o ToString(c - 1) \o ".key", response'.paths)]_vars

Canonical == {"sqft", "linear-foot", "by-unit"}

\* C12: in every stored project, whichever path wrote it, the
\* measurementType of every work item and of every surface is one of 'sqft',
\* 'linear-foot', 'by-unit'.
C12_StoredMeasurementTypesCanonical ==
    \A i \in Stored :
        \A c \in 1..Len(store[i].categories) :
            \A j \in 1..Len(store[i].categories[c].workItems) :
                /\ store[i].categories[c].workItems[j].measurementType \in Canonical
                /\ \A k \in 1..Len(store[i].categories[c].workItems[j].surfaces) :
                      store[i].categories[c].workItems[j].surfaces[k].measurementType \in Canonical

\* ---------------------------------------------------------------------
\* Direct calls of parsePayments
\* ---------------------------------------------------------------------
PaymentEntries ==
    {[kind |-> "obj", date |-> "2024-01-01", amount |-> a, method |-> m, isPaid |-> p] :
        a \in {100, 50, NaNv}, m \in {"Cash", "Deposit"}, p \in {"true", "false", Undef}}
    \cup {[kind |-> "null", date |-> Undef, amount |-> NaNv, method |-> Undef, isPaid |-> Undef]}

PaymentCalls ==
    {[fn |-> "parsePayments", payments |-> p, done |-> FALSE] :
        p \in {Array(e) : e \in SeqsUpTo(PaymentEntries, MaxPayments)}
              \cup {[kind |-> "undefined", elems |-> <<>>], [kind |-> "other", elems |-> <<>>]}}

InitPayments == Idle /\ call \in PaymentCalls

CallParsePayments ==
    /\ call.fn = "parsePayments" /\ ~call.done
    /\ call' = [fn |-> call.fn, payments |-> call.payments, done |-> TRUE,
                result |-> parsePayments(call.payments)]
    /\ UNCHANGED <<store, request, phase, response, handed>>

NextPayments == CallParsePayments

SpecPayments == InitPayments /\ [][NextPayments]_vars

PaymentsParsed == call.fn = "parsePayments" /\ call.done

\* the amount of entry i as a number (an absent amount adds nothing)
AmountAt(i) == IF call.payments.elems[i].amount = NaNv THEN 0 ELSE call.payments.elems[i].amount

PaidEntries ==
    {i \in 1..Len(call.payments.elems) :
        call.payments.elems[i].kind = "obj" /\ call.payments.elems[i].isPaid = "true"}

PaidDeposits == {i \in PaidEntries : call.payments.elems[i].method = "Deposit"}

\* C13: parsePayments returns as totalPaid the sum of amount over exactly the
\* entries with isPaid true, as depositAmount the sum of amount over exactly
\* the paid entries with method 'Deposit'; for a value that is no array, or
\* absent, it returns 0 and 0.
C13_ParsePaymentsSums ==
    PaymentsParsed =>
        /\ call.payments.kind = "array" =>
              /\ call.result.totalPaid = SetSum([i \in PaidEntries |-> AmountAt(i)])
              /\ call.result.depositAmount = SetSum([i \in PaidDeposits |-> AmountAt(i)])
        /\ call.payments.kind # "array" =>
              call.result = [totalPaid |-> 0, depositAmount |-> 0]

\* 100 paid in cash, 50 paid as a deposit, and an unpaid entry: 150 and 50
C13_Witness ==
    /\ PaymentsParsed
    /\ Len(call.payments.elems) = 3
    /\ \E i, j, k \in 1..3 :
          /\ call.payments.elems[i] = [kind |-> "obj", date |-> "2024-01-01", amount |-> 100,
                                       method |-> "Cash", isPaid |-> "true"]
          /\ call.payments.elems[j] = [kind |-> "obj", date |-> "2024-01-01", amount |-> 50,
                                       method |-> "Deposit", isPaid |-> "true"]
          /\ call.payments.elems[k].kind = "obj" /\ call.payments.elems[k].isPaid = "false"
          /\ call.payments.elems[k].amount = 100
    /\ call.result = [totalPaid |-> 150, depositAmount |-> 50]


\* ---------------------------------------------------------------------
\* The balance due
\* ---------------------------------------------------------------------
\* C14: the paymentDetails a create or update request assembles have
\* totalDue = max(0, grandTotal - totalPaid): totalDue is never negative, it is
\* 0 when totalPaid >= grandTotal, and otherwise totalDue + totalPaid = grandTotal
C14_TotalDueClamped ==
    (Saving /\ handed # NoData) =>
        /\ handed.paymentDetails.totalDue >= 0
        /\ handed.paymentDetails.totalPaid >= handed.paymentDetails.grandTotal
               => handed.paymentDetails.totalDue = 0
        /\ handed.paymentDetails.totalPaid < handed.paymentDetails.grandTotal
               => handed.paymentDetails.totalDue + handed.paymentDetails.totalPaid
                      = handed.paymentDetails.grandTotal

\* an overpaid project: 25.00 paid on 9.84
C14_Witness ==
    /\ Answered /\ handed # NoData
    /\ handed.paymentDetails.grandTotal = 984
    /\ handed.paymentDetails.totalPaid = 2500
    /\ handed.paymentDetails.totalDue = 0


\* ---------------------------------------------------------------------
\* Repair on read
\* ---------------------------------------------------------------------
ItemsOf(project) ==
    UNION {{<<c, i>> : i \in 1..Len(project.categories[c].workItems)} :
              c \in 1..Len(project.categories)}

ItemAt(project, p) == project.categories[p[1]].workItems[p[2]]

CorruptItems(project) == {p \in ItemsOf(project) : isCorrupt(ItemAt(project, p))}

\* show has fetched the record and issued the repair save
RepairSaveIssued == request.op = "show" /\ phase = "done" /\ handed # NoData

\* C15: when show has fetched a record with a custom work item whose
\* customWorkTypeName is blank (and so issues the repair save), the response has
\* status 200 and carries that item with customWorkTypeName 'Unnamed Custom
\* Work', whether the save succeeds or fails
C15_ReadAnswersRepaired ==
    [][(HandleShow /\ RepairSaveIssued')
         => /\ CorruptItems(store[request.id]) # {}
            /\ response'.status = 200
            /\ ItemsOf(response'.project) = ItemsOf(store[request.id])
            /\ \A p \in CorruptItems(store[request.id]) :
                  ItemAt(response'.project, p).customWorkTypeName = "Unnamed Custom Work"]_vars

\* the repair save has failed: the record is still stored without the name,
\* and the read is answered with the placeholder
C15_Witness ==
    /\ RepairSaveIssued
    /\ CorruptItems(store[request.id]) # {}
    /\ response.status = 200
    /\ CorruptItems(response.project) = {}


CorruptStored(id) == store[id] # NoProject /\ CorruptItems(store[id]) # {}

\* a read by its owner of a record that exists
OwnerRead == request.op = "show" /\ request.id \in Ids /\ store[request.id] # NoProject
                 /\ store[request.id].userId = request.user

OwnerReadPending == phase = "pending" /\ OwnerRead

\* a read that finds the record corrupt issues the repair save; the save either
\* fails and leaves the record as it was, or stores it with the placeholder
RepairRetried ==
    [][(HandleShow /\ OwnerRead /\ CorruptStored(request.id) /\ response'.status = 200)
         => /\ RepairSaveIssued'
            /\ \/ store' = store
               \/ /\ \A i \in Ids \ {request.id} : store'[i] = store[i]
                  /\ ~CorruptStored(request.id)'
                  /\ \A p \in CorruptItems(store[request.id]) :
                        ItemAt(store'[request.id], p).customWorkTypeName
                            = "Unnamed Custom Work"]_vars

\* a read that finds the record without a violation issues no save
NoSaveOnceRepaired ==
    [][(HandleShow /\ (request.id \in Ids => ~CorruptStored(request.id)))
         => (handed' = NoData /\ store' = store)]_vars

\* under fair repair saves, a corrupt record that keeps being read ends up
\* stored without a violation, for good
EventuallyRepaired ==
    ([]<>OwnerReadPending) => <>[](\A i \in Ids : ~CorruptStored(i))

\* C16: a read's failed repair save leaves the stored record corrupt and every
\* later read of it issues the repair save again; once a repair save has
\* succeeded the stored record has the placeholder name and no later read of it
\* issues a save; if repair saves do not fail forever, a corrupt record that
\* keeps being read is eventually stored repaired
C16_RepairRetriedUntilStored == RepairRetried /\ NoSaveOnceRepaired /\ EventuallyRepaired

\* a read whose repair save succeeded: the record is now stored with the placeholder
C16_Witness ==
    /\ RepairSaveIssued
    /\ ~CorruptStored(request.id)
    /\ \E p \in ItemsOf(store[request.id]) :
          ItemAt(store[request.id], p).customWorkTypeName = "Unnamed Custom Work"


\* ---------------------------------------------------------------------
\* The bulk repair, record by record
\* ---------------------------------------------------------------------
RepairIds == {"r" \o ToString(i) : i \in 1..MaxProjects}

\* corrupt, already repaired, and corrupt but of another owner
RepairRecords ==
    {NoProject, LegacyProject, repairedProject(LegacyProject),
     [LegacyProject EXCEPT !.userId = "u2"]}

\* the orders in which find({}) can return the records S
Orders(S) ==
    {o \in [1..Cardinality(S) -> S] : \A i, j \in 1..Cardinality(S) : i # j => o[i] # o[j]}

InitRepair ==
    /\ store \in [RepairIds -> RepairRecords]
    /\ request = NoRequest
    /\ phase = "idle"
    /\ response = NoResponse
    /\ handed = NoData
    /\ call = [fn |-> "validateAndRepairProjects", stage |-> "called", projects |-> <<>>,
               next |-> 1, visited |-> <<>>, repairs |-> <<>>, result |-> NoData]

\* src/models/project.js line 377: const projects = await this.find({})
Find ==
    /\ call.stage = "called"
    /\ \/ call' = [call EXCEPT !.stage = "rejected"]
       \/ \E o \in Orders({i \in RepairIds : store[i] # NoProject}) :
             call' = [call EXCEPT !.stage = "scanning",
                                  !.projects = [k \in 1..Len(o) |->
                                                   [id |-> o[k], doc |-> store[o[k]]]]]
    /\ UNCHANGED <<store, request, phase, response, handed>>

\* a faulty variant of lines 395-397: the identifier is recorded before the save
repairsBeforeSave(repairs, id, saveOk) == Append(repairs, id)

\* lines 395-400: repairs.push(project._id) follows the awaited save
repairsAfterSave(repairs, id, saveOk) == IF saveOk THEN Append(repairs, id) ELSE repairs

\* lines 380-402: one iteration of the for-of loop
Visit ==
    /\ call.stage = "scanning" /\ call.next <= Len(call.projects)
    /\ \E p \in {call.projects[call.next]} : \E saveOk \in BOOLEAN :
          /\ store' = IF needsRepair(p.doc) /\ saveOk
                      THEN [store EXCEPT ![p.id] = repairedProject(p.doc)] ELSE store
          /\ call' = [call EXCEPT !.next = @ + 1,
                                  !.visited = Append(@, p.id),
                                  !.repairs = IF needsRepair(p.doc)
                                              THEN repairsAfterSave(@, p.id, saveOk) ELSE @]
    /\ UNCHANGED <<request, phase, response, handed>>

\* lines 405-406
Return ==
    /\ call.stage = "scanning" /\ call.next > Len(call.projects)
    /\ call' = [call EXCEPT !.stage = "returned",
                            !.result = [repaired |-> Len(call.repairs),
                                        projectIds |-> call.repairs]]
    /\ UNCHANGED <<store, request, phase, response, handed>>

NextRepair == Find \/ Visit \/ Return

SpecRepair == InitRepair /\ [][NextRepair]_vars

Returned == call.fn = "validateAndRepairProjects" /\ call.stage = "returned"

Range(s) == {s[k] : k \in 1..Len(s)}

\* the positions of the records found with a violation and stored repaired
RepairedPositions ==
    {k \in 1..Len(call.projects) :
        /\ needsRepair(call.projects[k].doc)
        /\ store[call.projects[k].id] # call.projects[k].doc
        /\ ~needsRepair(store[call.projects[k].id])}

\* C17: when validateAndRepairProjects returns, every record of the collection
\* has been visited exactly once, whatever saves failed on the way; projectIds
\* holds exactly the identifiers of the records found with a violation whose
\* save succeeded (the others are stored as they were found), each once, and
\* repaired is the length of projectIds
C17_ScanReportsRepairs ==
    Returned =>
        /\ Len(call.visited) = Cardinality({i \in RepairIds : store[i] # NoProject})
        /\ Range(call.visited) = {i \in RepairIds : store[i] # NoProject}
        /\ Range(call.result.projectIds) = {call.projects[k].id : k \in RepairedPositions}
        /\ Len(call.result.projectIds) = Cardinality(RepairedPositions)
        /\ \A k \in 1..Len(call.projects) \ RepairedPositions :
              store[call.projects[k].id] = call.projects[k].doc
        /\ call.result.repaired = Len(call.result.projectIds)

\* the save of the first record failed, a later record was repaired and one
\* had no violation
C17_Witness ==
    /\ Returned
    /\ Len(call.projects) >= 3
    /\ needsRepair(store[call.visited[1]])
    /\ call.result.repaired = 1
    /\ call.result.projectIds[1] \in {call.visited[2], call.visited[3]}
    /\ \E k \in 2..3 : ~needsRepair(call.projects[k].doc)


\* ---------------------------------------------------------------------
\* The custom-type law
\* ---------------------------------------------------------------------
\* the bulk repair has just run and has left no violation behind
RepairedAll == request.op = "repair" /\ phase = "done" /\ \A i \in Ids : ~CorruptStored(i)

\* C18: after the bulk repair has run with every save succeeding, every work
\* item of every stored project has the type 'custom-work-type' if and only if
\* its customWorkTypeName is not blank
C18_CustomTypeLaw ==
    RepairedAll =>
        \A i \in Stored : \A p \in ItemsOf(store[i]) :
            ItemAt(store[i], p).type = CustomWorkType
                <=> ~Blank(ItemAt(store[i], p).customWorkTypeName)

\* the half of the law the repair does establish: a custom item has a name
CustomItemsNamed ==
    RepairedAll =>
        \A i \in Stored : \A p \in ItemsOf(store[i]) :
            ItemAt(store[i], p).type = CustomWorkType
                => ~Blank(ItemAt(store[i], p).customWorkTypeName)


\* ---------------------------------------------------------------------
\* Records of another owner, and records that do not exist
\* ---------------------------------------------------------------------
\* the request in flight targets a record that is absent or not the caller's
NotTheCallers ==
    /\ request.op \in {"update", "show", "delete"}
    /\ \/ request.id \notin Ids
       \/ store[request.id] = NoProject
       \/ store[request.id].userId # request.user

HandleTargeted == HandleUpdate \/ HandleShow \/ HandleDelete

\* the payload of the update in flight is one the handler accepts when the
\* target is the caller's own record
AcceptedOnOwnRecord ==
    \E own \in Ids :
        createOrUpdate(request.body, request.user, TRUE, own, TRUE,
                       [i \in Ids |-> [LegacyProject EXCEPT !.userId = request.user]]).resp.status
            = 200

C20_ValidationFailureShape ==
    (Answered /\ response.status = 400) =>
        /\ {"error", "details", "paths"} \subseteq response.has
        /\ response.error # ""
        /\ Len(response.details) >= 1
        /\ Len(response.paths) >= 1

\* the five branches, by what tells them apart in the response
FailureBranch ==
    IF response.error = "Invalid data format." THEN "CastError"
    ELSE IF "fullError" \in response.has THEN "ValidationError"
    ELSE IF response.paths = <<"categories.workItems">> THEN "no surviving work item"
    ELSE IF response.details = <<"Project must have at least one category">> THEN "no categories"
    ELSE "sanitizer error"

\* an update whose identifier is no ObjectId: the CastError branch
C20_Witness ==
    /\ Answered /\ response.status = 400
    /\ FailureBranch = "CastError"
    /\ response.paths = <<"_id">>


\* ---------------------------------------------------------------------
\* At least one category
\* ---------------------------------------------------------------------
\* the half of C21 that is a state invariant: no stored project is without a category
StoredHaveACategory == \A i \in Stored : Len(store[i].categories) >= 1

\* the payload of the request in flight has no category to offer
NoCategoryGiven ==
    /\ Saving
    /\ \/ request.body.categories.kind # "array"
       \/ request.body.categories.elems = <<>>

\* C21: every stored project has at least one category, and a create or update
\* whose categories are absent, not an array or empty is rejected with the 400
\* validation failure and changes nothing
C21_AtLeastOneCategory ==
    [][((HandleCreate \/ HandleUpdate) /\ NoCategoryGiven)
         => /\ response'.status = 400
            /\ store' = store
            /\ StoredHaveACategory']_vars


\* ---------------------------------------------------------------------
\* Direct calls of normalizeToCanonicalMeasurementType
\* ---------------------------------------------------------------------
\* a word as it is written in the payload: capitalised or not, padded or not;
\* `word` is its lower-case, trimmed form
WrittenWords ==
    {[word |-> w, written |-> Padded(w, p)] : w \in MeasurementWords, p \in Paddings}
    \cup {[word |-> c[2], written |-> Padded(c[1], p)] : c \in Capitalised, p \in Paddings}
    \cup {[word |-> x, written |-> x] : x \in {Undef, NonString}}

NormalizeCalls ==
    {[fn |-> "normalizeToCanonicalMeasurementType", word |-> w.word, type |-> w.written,
      done |-> FALSE] : w \in WrittenWords}

InitNormalize == Idle /\ call \in NormalizeCalls

CallNormalize ==
    /\ call.fn = "normalizeToCanonicalMeasurementType" /\ ~call.done
    /\ call' = [fn |-> call.fn, word |-> call.word, type |-> call.type, done |-> TRUE,
                result |-> normalizeToCanonicalMeasurementType(call.type)]
    /\ UNCHANGED <<store, request, phase, response, handed>>

NextNormalize == CallNormalize

SpecNormalize == InitNormalize /\ [][NextNormalize]_vars

Normalized == call.fn = "normalizeToCanonicalMeasurementType" /\ call.done

\* C23: normalizeToCanonicalMeasurementType returns one of the three canonical
\* types; whatever the capitals and the surrounding whitespace of its argument,
\* the words of the area list give 'sqft', those of the linear list
\* 'linear-foot', those of the unit list 'by-unit', and every other value,
\* missing and non-string values included, gives 'sqft'
C23_AliasTable ==
    Normalized =>
        /\ call.result \in Canonical
        /\ call.word \in {"sqft", "square-foot", "square foot", "single-surface"}
               => call.result = "sqft"
        /\ call.word \in {"linear-foot", "linear ft", "linear"} => call.result = "linear-foot"
        /\ call.word \in {"by-unit", "by unit", "unit", "units"} => call.result = "by-unit"
        /\ call.word \in {"meters", "sq ft", "sqfts", "", Undef, NonString}
               => call.result = "sqft"

\* ' Linear Ft ' is read as 'linear-foot'
C23_Witness ==
    /\ Normalized
    /\ call.type = " Linear Ft "
    /\ call.result = "linear-foot"


\* ---------------------------------------------------------------------
\* The pre-validate hook, applied twice
\* ---------------------------------------------------------------------
\* measurement types as a document can hold them before the hook
HeldTypes == {"sqft", "linear-foot", " Linear Ft ", "Units", "Square-Foot", "meters", Undef}

\* address components: none, a number and a street name, all four
HeldAddresses ==
    {[addressNumber |-> Undef, direction |-> Undef, streetName |-> Undef, streetType |-> Undef],
     [addressNumber |-> "12", direction |-> Undef, streetName |-> "Main", streetType |-> Undef],
     [addressNumber |-> "12", direction |-> "N", streetName |-> "Main", streetType |-> "St"]}

\* documents that differ in what the hook rewrites
EnforcerDocs ==
    {[LegacyProject EXCEPT
         !.customerInfo.addressNumber = a.addressNumber,
         !.customerInfo.direction = a.direction,
         !.customerInfo.streetName = a.streetName,
         !.customerInfo.streetType = a.streetType,
         !.categories[1].workItems[1].categoryKey = k,
         !.categories[1].workItems[1].measurementType = m,
         !.categories[1].workItems[2].surfaces[1].measurementType = sm] :
        a \in HeldAddresses, k \in {"kitchen", "bathroom", Undef},
        m \in HeldTypes, sm \in HeldTypes}

InitEnforce ==
    /\ Idle
    /\ call \in {[fn |-> "preValidate", doc |-> d, stage |-> "called", once |-> NoData,
                  twice |-> NoData] : d \in EnforcerDocs}

\* src/models/project.js lines 280-347, on the document as constructed
EnforceOnce ==
    /\ call.fn = "preValidate" /\ call.stage = "called"
    /\ call' = [call EXCEPT !.stage = "once", !.once = preValidate(call.doc)]
    /\ UNCHANGED <<store, request, phase, response, handed>>

\* lines 280-347 again, on the document the first pass left
EnforceTwice ==
    /\ call.fn = "preValidate" /\ call.stage = "once"
    /\ call' = [call EXCEPT !.stage = "twice", !.twice = preValidate(call.once)]
    /\ UNCHANGED <<store, request, phase, response, handed>>

NextEnforce == EnforceOnce \/ EnforceTwice

SpecEnforce == InitEnforce /\ [][NextEnforce]_vars

EnforcedTwice == call.fn = "preValidate" /\ call.stage = "twice"

\* C22: the pre-validate hook applied to its own output changes nothing, and
\* normalizeToCanonicalMeasurementType applied to its own output returns it
C22_EnforcerIdempotent ==
    EnforcedTwice =>
        /\ call.twice = call.once
        /\ \A p \in ItemsOf(call.doc) :
              normalizeToCanonicalMeasurementType(
                  normalizeToCanonicalMeasurementType(ItemAt(call.doc, p).measurementType))
                = normalizeToCanonicalMeasurementType(ItemAt(call.doc, p).measurementType)

\* a document whose street, categoryKey and measurement types the first pass
\* all rewrote
C22_Witness ==
    /\ EnforcedTwice
    /\ call.once.customerInfo.street = "12 N Main St"
    /\ call.once.customerInfo.street # call.doc.customerInfo.street
    /\ ItemAt(call.doc, <<1, 1>>).categoryKey = "bathroom"
    /\ ItemAt(call.once, <<1, 1>>).categoryKey = "kitchen"
    /\ ItemAt(call.doc, <<1, 1>>).measurementType = " Linear Ft "
    /\ ItemAt(call.once, <<1, 1>>).measurementType = "linear-foot"
    /\ ItemAt(call.once, <<1, 2>>).surfaces[1].measurementType = "by-unit"


\* ---------------------------------------------------------------------
\* Direct calls of getUnits
\* ---------------------------------------------------------------------
\* 1.5 sqft, 2.5 ft and 3.5 units, so that the field read shows in the sum
MeasuredSurfaces ==
    {Surface(mt, 3, 5, 7) : mt \in {Undef, "", "sqft", "linear-foot", "by-unit", "meters"}}
    \cup {Surface("sqft", NaNv, 5, 7), NullSurface}

UnitsItems ==
    {[kind |-> "obj", surfacesIsArray |-> TRUE, measurementType |-> mt, surfaces |-> ss] :
        mt \in {Undef, "sqft", "linear-foot", "by-unit", "meters"},
        ss \in SeqsUpTo(MeasuredSurfaces, MaxSurfaces)}
    \cup {[kind |-> "obj", surfacesIsArray |-> FALSE, measurementType |-> "sqft",
           surfaces |-> <<>>],
          [kind |-> "null", surfacesIsArray |-> FALSE, measurementType |-> Undef,
           surfaces |-> <<>>]}

InitUnits == Idle /\ call \in {[fn |-> "getUnits", item |-> i, done |-> FALSE] : i \in UnitsItems}

CallGetUnits ==
    /\ call.fn = "getUnits" /\ ~call.done
    /\ call' = [fn |-> call.fn, item |-> call.item, done |-> TRUE,
                result |-> getUnits(call.item)]
    /\ UNCHANGED <<store, request, phase, response, handed>>

NextUnits == CallGetUnits

SpecUnits == InitUnits /\ [][NextUnits]_vars

UnitsDone == call.fn = "getUnits" /\ call.done

\* the positions of the surfaces measured as `type`: by their own
\* measurementType when they have one, by the item's otherwise
MeasuredAs(type) ==
    {i \in 1..Len(call.item.surfaces) :
        /\ call.item.surfaces[i] # NullSurface
        /\ \/ call.item.surfaces[i].measurementType = type
           \/ /\ call.item.surfaces[i].measurementType \in {Undef, ""}
              /\ call.item.measurementType = type}

\* a field as a number of halves, an absent one counting 0
FieldAt(i, field) ==
    IF call.item.surfaces[i][field] = NaNv THEN 0 ELSE call.item.surfaces[i][field]

\* C24: getUnits(item) is the sum, over the surfaces, of the sqft field of those
\* measured as 'sqft', the linearFt field of those measured as 'linear-foot'
\* and the units field, truncated to an integer, of those measured as
\* 'by-unit', a surface being measured by its own measurementType if it has
\* one and by the item's otherwise; surfaces of any other type add 0; an item
\* without an array of surfaces gives 0
C24_UnitsSum ==
    UnitsDone =>
        IF call.item.kind # "obj" \/ ~call.item.surfacesIsArray THEN call.result = 0
        ELSE call.result =
                SetSum([i \in MeasuredAs("sqft") |-> FieldAt(i, "sqft")])
                + SetSum([i \in MeasuredAs("linear-foot") |-> FieldAt(i, "linearFt")])
                + SetSum([i \in MeasuredAs("by-unit") |->
                             2 * (FieldAt(i, "units") \div 2)])

\* a 'by-unit' item with a surface of its own type 'linear-foot' and a surface
\* without a type: 2.5 ft and 3 units
C24_Witness ==
    /\ UnitsDone
    /\ call.item.measurementType = "by-unit"
    /\ call.item.surfaces = <<Surface("linear-foot", 3, 5, 7), Surface(Undef, 3, 5, 7)>>
    /\ call.result = 5 + 6


\* ---------------------------------------------------------------------
\* The sanitizer followed by the loop of calculateCostsAndTotals over its result
\* ---------------------------------------------------------------------
\* surfaces as a request may carry them: -1.5, 0, 1.5, 3.5 or nothing in
\* every dimension field
RequestSurfaces == {Surface(Undef, d, d, d) : d \in {-3, 0, 3, 7, NaNv}}

RequestItems ==
    {[RawItem("kitchen-flooring", Undef, ss, Undef) EXCEPT !.measurementType = mt] :
        mt \in {"sqft", "linear-foot", "by-unit"},
        ss \in SeqsUpTo(RequestSurfaces, MaxSurfaces)}

AggregateCalls ==
    {[fn |-> "getUnits", stage |-> "received",
      categories |-> Array(<<RawCategory("kitchen", "Kitchen", w)>>)] :
        w \in {<<i>> : i \in RequestItems}
              \cup {<<ICustomNoName, i>> : i \in RequestItems}
              \cup {<<ICustomNoName>>}}

InitAggregate == Idle /\ call \in AggregateCalls

\* part_000 line 243
SanitizeTree ==
    /\ call.fn = "getUnits" /\ "stage" \in DOMAIN call /\ call.stage = "received"
    /\ call' = [fn |-> call.fn, stage |-> "sanitized", categories |-> call.categories,
                fixed |-> ensureCategoryKeys(call.categories)]
    /\ UNCHANGED <<store, request, phase, response, handed>>

\* part_000 lines 255-266
RejectWithoutItems ==
    /\ call.fn = "getUnits" /\ "stage" \in DOMAIN call /\ call.stage = "sanitized"
    /\ call.fixed.ok /\ totalWorkItems(call.fixed.value) = 0
    /\ call' = [call EXCEPT !.stage = "rejected"]
    /\ UNCHANGED <<store, request, phase, response, handed>>

\* part_000 lines 57-64: getUnits on every item of every category
AggregateUnits ==
    /\ call.fn = "getUnits" /\ "stage" \in DOMAIN call /\ call.stage = "sanitized"
    /\ call.fixed.ok /\ totalWorkItems(call.fixed.value) > 0
    /\ call' = [fn |-> call.fn, stage |-> "aggregated", categories |-> call.categories,
                fixed |-> call.fixed,
                units |-> [c \in 1..Len(call.fixed.value) |->
                             [i \in 1..Len(call.fixed.value[c].workItems) |->
                                getUnits(call.fixed.value[c].workItems[i])]]]
    /\ UNCHANGED <<store, request, phase, response, handed>>

NextAggregate == SanitizeTree \/ RejectWithoutItems \/ AggregateUnits

SpecAggregate == InitAggregate /\ [][NextAggregate]_vars

\* C25: getUnits gives a number that is not negative for every item of the
\* sanitized tree, whatever the dimension fields of the request's surfaces hold
C25_UnitsNonNegative ==
    (call.fn = "getUnits" /\ "stage" \in DOMAIN call /\ call.stage = "aggregated") =>
        \A c \in 1..Len(call.units) : \A i \in 1..Len(call.units[c]) : call.units[c][i] >= 0


\* a rate as the calculator reads it: s.rate || 0
RateOf(x) == IF x = NaNv THEN 0 ELSE x

\* C26: every field returned by calculateCostsAndTotals is the rounding to 2
\* decimals of its own exact intermediate: the discount, the waste, the
\* subtotal, the markup, the tax and the grand total are computed from the
\* exact sums over the work items and from each other's exact values, never
\* from a rounded one
C26_RoundedOnlyOnReturn ==
    CalcDone =>
        LET s == call.settings
            M == RawMaterial(call.categories)
            L == RawLabor(call.categories)
            discount == L * RateOf(s.laborDiscount)
            waste == M * RateOf(s.wasteFactor)
            sub == (M * 100 + waste) + (L * 100 - discount)
            markup == sub * RateOf(s.markup)
            tax == sub * RateOf(s.taxRate)
        IN call.result =
             [materialCost |-> ToFixed2(M, 200),
              laborCost |-> ToFixed2(L * 100 - discount, 20000),
              laborCostBeforeDiscount |-> ToFixed2(L, 200),
              laborDiscount |-> ToFixed2(discount, 20000),
              wasteCost |-> ToFixed2(waste, 20000),
              taxAmount |-> ToFixed2(tax, 2000000),
              markupAmount |-> ToFixed2(markup, 2000000),
              miscFeesTotal |-> Fees(s) - NumberOrZero(s.transportationFee),
              transportationFee |-> NumberOrZero(s.transportationFee),
              subtotal |-> ToFixed2(sub, 20000),
              total |-> ToFixed2(sub * 100 + markup + tax + Fees(s) * 20000, 2000000)]

\* a call whose returned total differs from the sum of the returned parts, and
\* whose returned subtotal differs from the returned material with waste plus
\* the returned labour: rounding the intermediates would show
C26_Witness ==
    /\ CalcDone
    /\ call.result.total # call.result.subtotal + call.result.markupAmount
                             + call.result.taxAmount + call.result.miscFeesTotal
                             + call.result.transportationFee
    /\ call.result.subtotal # call.result.materialCost + call.result.wasteCost
                                + call.result.laborCost


\* ---------------------------------------------------------------------
\* What the repair changes
\* ---------------------------------------------------------------------
\* the custom work items of a record that have no name
NamelessCustom(project) ==
    {p \in ItemsOf(project) :
        /\ ItemAt(project, p).type = CustomWorkType
        /\ Blank(ItemAt(project, p).customWorkTypeName)}

\* `after` is `before` but for the customWorkTypeName of its work items
SameButNames(before, after) ==
    /\ [after EXCEPT !.categories = before.categories] = before
    /\ Len(after.categories) = Len(before.categories)
    /\ \A c \in 1..Len(before.categories) :
          /\ [after.categories[c] EXCEPT !.workItems = before.categories[c].workItems]
                = before.categories[c]
          /\ Len(after.categories[c].workItems) = Len(before.categories[c].workItems)
    /\ \A p \in ItemsOf(before) :
          [ItemAt(after, p) EXCEPT !.customWorkTypeName = ItemAt(before, p).customWorkTypeName]
             = ItemAt(before, p)

\* `after` is `before` untouched, or `before` with the placeholder as the name
\* of exactly its nameless custom items
RepairOnly(before, after) ==
    \/ after = before
    \/ /\ before # NoProject /\ after # NoProject
       /\ NamelessCustom(before) # {}
       /\ SameButNames(before, after)
       /\ \A p \in ItemsOf(before) :
             ItemAt(after, p).customWorkTypeName =
                IF p \in NamelessCustom(before) THEN "Unnamed Custom Work"
                ELSE ItemAt(before, p).customWorkTypeName

\* C27: a read and a bulk repair leave every stored record as it was but for
\* the customWorkTypeName of its custom work items with a blank name, which
\* becomes 'Unnamed Custom Work'; a record without such an item is left alone
\* and the read issues no save for it, so that a second repair of a repaired
\* record changes nothing
C27_RepairChangesOnlyTheName ==
    [][(HandleShow \/ RunRepair) =>
          /\ \A i \in Ids : RepairOnly(store[i], store'[i])
          /\ (HandleShow /\ handed' # NoData) =>
                /\ request.id \in Ids /\ store[request.id] # NoProject
                /\ NamelessCustom(store[request.id]) # {}
                /\ RepairOnly(store[request.id], handed')
                /\ handed' # store[request.id]]_vars

\* a read has saved its repair: the stored record is the one handed to save,
\* with a named custom item beside an item of a standard type
C27_Witness ==
    /\ RepairSaveIssued
    /\ store[request.id] = handed
    /\ \E p, q \in ItemsOf(handed) :
          /\ ItemAt(handed, p).customWorkTypeName = "Unnamed Custom Work"
          /\ ItemAt(handed, q).type # CustomWorkType


\* ---------------------------------------------------------------------
\* The owner of a record
\* ---------------------------------------------------------------------
\* C28: a record written by a create or an update has the caller as its
\* userId, whatever userId the payload carries, and an update writes only to
\* a record that was the caller's already
C28_OwnerIsTheCaller ==
    [][(HandleCreate \/ HandleUpdate) =>
          /\ handed' # NoData => handed'.userId = request.user
          /\ \A i \in Ids :
                store'[i] # store[i] =>
                   /\ store'[i] # NoProject
                   /\ store'[i].userId = request.user
                   /\ HandleUpdate => (store[i] # NoProject
                                          /\ store[i].userId = store'[i].userId)]_vars

\* an update has been accepted whose payload names another user: the record
\* is the caller's
C28_Witness ==
    /\ Answered /\ request.op = "update" /\ response.status = 200
    /\ request.body.userId \in Users \ {request.user}
    /\ store[request.id].userId = request.user
    /\ response.project.userId = request.user


\* ---------------------------------------------------------------------
\* A read whose fetch and repair save are separated by other requests
\* ---------------------------------------------------------------------
\* an array element MongoDB creates when a $set names a position past the end
\* of the array: null before the position, and at the position a document
\* with the one field that was set
PaddingItem ==
    [name |-> Undef, customWorkTypeName |-> Undef, type |-> Undef, subtype |-> Undef,
     description |-> Undef, surfaces |-> <<>>, materialCost |-> NaNv, laborCost |-> NaNv,
     notes |-> Undef, measurementType |-> Undef, categoryKey |-> Undef]

\* src/models/project.js line 389 followed by save(): the work items of one
\* stored category after $set of 'categories.c.workItems.k.customWorkTypeName'
\* for the positions k of K
namesSet(items, K) ==
    LET n == IF K = {} THEN Len(items)
             ELSE LET m == CHOOSE k \in K : \A j \in K : j <= k
                  IN IF m > Len(items) THEN m ELSE Len(items)
    IN [k \in 1..n |->
          IF k \in K
          THEN [(IF k <= Len(items) THEN items[k] ELSE PaddingItem)
                   EXCEPT !.customWorkTypeName = "Unnamed Custom Work"]
          ELSE IF k <= Len(items) THEN items[k] ELSE PaddingItem]

\* part_000 line 427: save() of a fetched document sends the paths modified
\* since the fetch, here the names set by the repair, each by its position;
\* `current` is the stored record the write meets. (The records read here
\* have their nameless items in categories that every later tree still has.)
savedOver(current, fetched) ==
    [current EXCEPT !.categories =
        [c \in 1..Len(current.categories) |->
            [current.categories[c] EXCEPT !.workItems =
                namesSet(current.categories[c].workItems,
                         {p[2] : p \in {q \in CorruptItems(fetched) : q[1] = c}})]]]

TheId == CHOOSE i \in Ids : TRUE

\* the updates sent while the read is under way: the legacy record with its
\* custom item named, trees with one item, with a standard item or a named
\* custom item where the legacy record has its nameless one, some with other
\* payments, and a payload that is rejected
RaceBodies ==
    {LegacyBody} \cup PaidUp
    \cup {Body(Array(<<RawCategory(k, "Rooms", w)>>), d) :
              k \in {"kitchen", "custom_a"},
              w \in {<<IGood, IGood>>, <<IGood, ICustomNamed>>, <<ICustomNamed>>,
                     <<IGood, ICustomNamed, IGood>>},
              d \in PayloadDerived}
    \cup {Body(Array(<<>>), d) : d \in PayloadDerived}

InitRace ==
    /\ store = [i \in Ids |-> LegacyProject]
    /\ request = NoRequest /\ phase = "idle" /\ response = NoResponse /\ handed = NoData
    /\ call \in {[fn |-> "show", stage |-> "start", user |-> u, fetched |-> NoProject,
                  written |-> NoData, status |-> 0] : u \in Users}

\* part_000 lines 400-407
ShowFind ==
    /\ call.fn = "show" /\ call.stage = "start"
    /\ \E findOk \in BOOLEAN :
          call' = IF ~findOk THEN [call EXCEPT !.stage = "returned", !.status = 500]
                  ELSE [call EXCEPT !.stage = "fetched",
                                    !.fetched = IF store[TheId] # NoProject
                                                     /\ store[TheId].userId = call.user
                                                THEN store[TheId] ELSE NoProject]
    /\ UNCHANGED <<store, request, phase, response, handed>>

\* part_000 lines 309-322, by the owner, before the read's fetch or between
\* its fetch and its save
UpdateCommits ==
    /\ call.fn = "show" /\ call.stage \in {"start", "fetched"}
    /\ \E body \in RaceBodies, dbOk \in BOOLEAN :
          \E r \in {createOrUpdate(body, "u1", TRUE, TheId, dbOk, store)} :
             /\ store' = r.store
             /\ call' = IF call.stage = "fetched" /\ r.resp.status = 200
                        THEN [call EXCEPT !.written = r.store[TheId]] ELSE call
    /\ UNCHANGED <<request, phase, response, handed>>

\* part_000 lines 409-433
ShowSave ==
    /\ call.fn = "show" /\ call.stage = "fetched"
    /\ call.fetched # NoProject /\ needsRepair(call.fetched)
    /\ \E saveOk \in BOOLEAN :
          store' = IF saveOk THEN [store EXCEPT ![TheId] = savedOver(store[TheId], call.fetched)]
                   ELSE store
    /\ call' = [call EXCEPT !.stage = "saved"]
    /\ UNCHANGED <<request, phase, response, handed>>

\* part_000 lines 404-406 and 435-436
ShowRespond ==
    /\ call.fn = "show"
    /\ \/ call.stage = "saved"
       \/ /\ call.stage = "fetched"
          /\ IF call.fetched = NoProject THEN TRUE ELSE ~needsRepair(call.fetched)
    /\ call' = [call EXCEPT !.stage = "returned",
                            !.status = IF call.fetched = NoProject THEN 404 ELSE 200]
    /\ UNCHANGED <<store, request, phase, response, handed>>

NextRace == ShowFind \/ UpdateCommits \/ ShowSave \/ ShowRespond

SpecRace == InitRace /\ [][NextRace]_vars

\* the read has issued its repair save after an update committed behind its fetch
SavedBehindUpdate ==
    call.fn = "show" /\ call.stage \in {"saved", "returned"} /\ call.written # NoData

\* C29: when an update has committed between the fetch of a read and the
\* repair save of that read, the stored record holds the categories, settings,
\* totals and paymentDetails the update wrote
C29_StaleRepairKeepsTheUpdate ==
    SavedBehindUpdate =>
        /\ store[TheId].categories = call.written.categories
        /\ store[TheId].settings = call.written.settings
        /\ store[TheId].totals = call.written.totals
        /\ store[TheId].paymentDetails = call.written.paymentDetails


\* ---------------------------------------------------------------------
\* models/project.js : migrateDepositToPayment
\* ---------------------------------------------------------------------
\* lines 190-198: the paths settingsSchema declares
SettingsPaths ==
    {"taxRate", "transportationFee", "wasteFactor", "laborDiscount", "markup", "miscFees",
     "payments"}

\* project.settings.<path> of a fetched document: a field of the stored
\* record that the schema does not declare has no getter and reads undefined
\* (NaNv for a number, Undef for a string or a date)
readSetting(project, path, absent) ==
    IF path \in SettingsPaths THEN project.settings[path] ELSE absent

\* project.set('settings.<path>', undefined): ignored, under the schema's
\* default strict mode, for a path the schema does not declare
unset(project, path, absent) ==
    IF path \in SettingsPaths THEN [project EXCEPT !.settings[path] = absent] ELSE project

\* line 423
hasExistingDepositPayment(project) ==
    \E i \in 1..Len(project.settings.payments) : project.settings.payments[i].method = "Deposit"

\* lines 426-437: the document handed to save()
migratedProject(project) ==
    LET depositDate == readSetting(project, "depositDate", Undef)
        payment == [date |-> IF Truthy(depositDate) THEN depositDate
                             ELSE IF Truthy(project.customerInfo.startDate)
                                  THEN project.customerInfo.startDate ELSE "now",
                    amount |-> readSetting(project, "deposit", NaNv),
                    method |-> "Deposit",
                    note |-> "Initial Deposit (migrated from old system)",
                    isPaid |-> TRUE,
                    status |-> "Paid"]
        pushed == [project EXCEPT !.settings.payments = Append(@, payment)]
    IN unset(unset(unset(pushed, "deposit", NaNv), "depositMethod", Undef), "depositDate", Undef)

\* lines 413-415: the filter on the stored record
hasLegacyDeposit(project) == project.settings.deposit # NaNv /\ project.settings.deposit > 0

MigrateIds == {"m" \o ToString(i) : i \in 1..MaxLegacy}

StoredPayment(method) ==
    [date |-> "2024-01-01", amount |-> 100, method |-> method, note |-> "", isPaid |-> TRUE,
     status |-> "Paid"]

\* records with and without a legacy deposit of 5.00, with no payment, a cash
\* payment or a 'Deposit' payment
MigrateRecords ==
    {[customerInfo |-> [startDate |-> "2023-01-01"],
      settings |-> [deposit |-> d[1], depositMethod |-> d[2], depositDate |-> d[3],
                    payments |-> p]] :
        d \in {<<NaNv, Undef, Undef>>, <<0, "Cash", Undef>>, <<500, "Check", "2023-05-01">>,
               <<500, "Cash", Undef>>},
        p \in {<<>>, <<StoredPayment("Cash")>>, <<StoredPayment("Deposit")>>}}

InitMigrate ==
    /\ store \in [MigrateIds -> MigrateRecords]
    /\ request = NoRequest /\ phase = "idle" /\ response = NoResponse /\ handed = NoData
    /\ call = [fn |-> "migrateDepositToPayment", stage |-> "called", run |-> 1,
               before |-> store, pending |-> {}, results |-> [i \in MigrateIds |-> 0],
               saved |-> {}, migrated |-> 0]

\* lines 413-420: find. Whether a filter on a path the schema does not declare
\* is sent or dropped depends on the strictQuery setting of the Mongoose in use
FindLegacy ==
    /\ call.fn = "migrateDepositToPayment" /\ call.stage = "called"
    /\ \/ call' = [call EXCEPT !.stage = "rejected"]
       \/ \E filtered \in BOOLEAN :
            \E found \in {{i \in MigrateIds : ~filtered \/ hasLegacyDeposit(store[i])}} :
               call' = IF found = {}
                       THEN [call EXCEPT !.stage = "returned", !.migrated = 0,
                                         !.results = [i \in MigrateIds |-> 0]]
                       ELSE [call EXCEPT !.stage = "migrating", !.pending = found,
                                         !.results = [i \in MigrateIds |-> 0]]
    /\ UNCHANGED <<store, request, phase, response, handed>>

\* lines 422-446: the callback of map for one project, its save included; the
\* callbacks run concurrently and finish in any order
MigrateProject ==
    /\ call.fn = "migrateDepositToPayment" /\ call.stage = "migrating"
    /\ \E i \in call.pending, saveOk \in BOOLEAN :
          IF hasExistingDepositPayment(store[i])
          THEN /\ call' = [call EXCEPT !.pending = @ \ {i}]
               /\ store' = store
          ELSE /\ call' = [call EXCEPT !.pending = @ \ {i},
                                       !.results[i] = IF saveOk THEN 1 ELSE 0,
                                       !.saved = IF saveOk THEN @ \cup {i} ELSE @]
               /\ store' = IF saveOk THEN [store EXCEPT ![i] = migratedProject(store[i])]
                           ELSE store
    /\ UNCHANGED <<request, phase, response, handed>>

\* lines 448-452
ReturnMigrated ==
    /\ call.fn = "migrateDepositToPayment" /\ call.stage = "migrating" /\ call.pending = {}
    /\ call' = [call EXCEPT !.stage = "returned",
                            !.migrated = SetSum(call.results)]
    /\ UNCHANGED <<store, request, phase, response, handed>>

\* the migration is run again
RunAgain ==
    /\ call.fn = "migrateDepositToPayment" /\ call.stage = "returned" /\ call.run < MaxRuns
    /\ call' = [call EXCEPT !.stage = "called", !.run = @ + 1]
    /\ UNCHANGED <<store, request, phase, response, handed>>

NextMigrate == FindLegacy \/ MigrateProject \/ ReturnMigrated \/ RunAgain

SpecMigrate == InitMigrate /\ [][NextMigrate]_vars

MigrationReturned == call.fn = "migrateDepositToPayment" /\ call.stage = "returned"

DepositPayments(project) ==
    {k \in 1..Len(project.settings.payments) : project.settings.payments[k].method = "Deposit"}

\* every run adds at most one 'Deposit' payment to a record over all runs, and
\* none to a record that had one
AtMostOneDepositAdded ==
    \A i \in MigrateIds :
        /\ Cardinality(DepositPayments(store[i]))
              <= Cardinality(DepositPayments(call.before[i])) + 1
        /\ DepositPayments(call.before[i]) # {} => store[i] = call.before[i]
        /\ Len(store[i].settings.payments) <= Len(call.before[i].settings.payments) + 1

\* the count returned is the number of records whose save succeeded in the run
CountsSavedRecords ==
    MigrationReturned =>
        call.migrated = Cardinality({i \in MigrateIds : call.results[i] = 1})

\* C30: migrateDepositToPayment adds at most one 'Deposit' payment to a
\* record, and none to a record that has one; a record it has saved holds
\* exactly one 'Deposit' payment, paid, of the amount of the legacy
\* settings.deposit, and no legacy deposit field any more; the count it returns
\* is the number of records whose save succeeded
C30_DepositMigratedOnce ==
    /\ AtMostOneDepositAdded
    /\ CountsSavedRecords
    /\ \A i \in call.saved :
          /\ Cardinality(DepositPayments(store[i])) = 1
          /\ \A k \in DepositPayments(store[i]) :
                /\ store[i].settings.payments[k].isPaid
                /\ store[i].settings.payments[k].status = "Paid"
                /\ store[i].settings.payments[k].amount = call.before[i].settings.deposit
          /\ store[i].settings.deposit = NaNv
          /\ store[i].settings.depositMethod = Undef
          /\ store[i].settings.depositDate = Undef

====
